---- MODULE Spec2Model ----
(***************************************************************************)
(* Test-plan generation pipeline of the JIRA test plan generator:          *)
(* TestPlanService.generate, the Groq and Ollama providers, the two        *)
(* generation routes, and the template / ticket-cache / settings stores    *)
(* they share (SQLite tables templates, jira_tickets, test_plan_history,   *)
(* settings).                                                              *)
(*                                                                         *)
(* Text is a sequence of one-character strings.  A progress value is kept  *)
(* in hundredths of a percent (100% = 10000), so the providers' estimate   *)
(* 10 + length/100 is the exact integer 1000 + length.                     *)
(***************************************************************************)
EXTENDS Integers, Sequences, FiniteSets, TLC

\* ---------------------------------------------------------------- bounds
MaxTemplates == 2
MaxTicketRows == 1
MaxChunks == 2
MaxFrags == 2
MaxClock == 2
MaxHistory == 2

\* ------------------------------------------------------------- universes
Runs == {"r1"}
\* the requests the service instance can have in progress at once
AllRuns == {"r1", "r2"}
TicketKeys == {"ABC-1", "XY-2"}
Summaries == {"s1", "s2"}
Names == {"n1", "n2"}
Chars == {"a", "b"}
Providers == {"groq", "ollama"}
Consumers == {"stream", "sync"}

NULL == 0
NoProgress == 0 - 1
None == "none"

Pct(n) == n * 100

Min(a, b) == IF a < b THEN a ELSE b

Last(s) == s[Len(s)]

RECURSIVE Flatten(_)
Flatten(ss) == IF ss = <<>> THEN <<>> ELSE Head(ss) \o Flatten(Tail(ss))

\* ------------------------------------------------------------ ApiError
\* Errors.* factories: the machine-readable code of each ApiError.
BAD_REQUEST == "BAD_REQUEST"
UNAUTHORIZED == "UNAUTHORIZED"
FORBIDDEN == "FORBIDDEN"
NOT_FOUND == "NOT_FOUND"
TOO_MANY_REQUESTS == "TOO_MANY_REQUESTS"
INTERNAL_ERROR == "INTERNAL_ERROR"
BAD_GATEWAY == "BAD_GATEWAY"

ApiErrorCodes ==
    {BAD_REQUEST, UNAUTHORIZED, FORBIDDEN, NOT_FOUND, TOO_MANY_REQUESTS,
     INTERNAL_ERROR, BAD_GATEWAY}

\* An exception value: an ApiError carries a status (isApi), anything else
\* is a plain Error with only a message.
ApiError(code) == [isApi |-> TRUE, code |-> code]
PlainError(msg) == [isApi |-> FALSE, code |-> msg]

\* ---------------------------------------------------------------- state
VARIABLES
    templates,          \* rows of table templates
    nextTemplateId,     \* AUTOINCREMENT of templates.id
    jira_tickets,       \* rows of table jira_tickets (the ticket cache)
    nextTicketRowId,    \* AUTOINCREMENT of jira_tickets.id
    test_plan_history,  \* rows of table test_plan_history, in insert order
    nextHistoryId,      \* AUTOINCREMENT of test_plan_history.id
    settings,           \* the single row of table settings
    files,              \* template PDFs on disk, by the id of their row
    now,                \* CURRENT_TIMESTAMP, in seconds
    reply,              \* the response last sent by a store endpoint
    run                 \* per request: the generator, its provider, its route

vars == <<templates, nextTemplateId, jira_tickets, nextTicketRowId,
          test_plan_history, nextHistoryId, settings, files, now, reply,
          run>>

dbVars == <<templates, nextTemplateId, jira_tickets, nextTicketRowId,
            test_plan_history, nextHistoryId, settings, files, now, reply>>

\* ------------------------------------------------------------- replies
\* What a store endpoint answered: its route, the id or key it was called
\* with, and the data of a success body or the code of an error envelope.
NoReply == [op |-> None, arg |-> NULL, result |-> None]

Reply(op, arg, result) == [op |-> op, arg |-> arg, result |-> result]

\* The store endpoints answer inside a generation scenario as well, but
\* their responses are recorded in the store specifications only.
Unobserved == reply' = NoReply

Answers(op, arg, result) == reply' = Reply(op, arg, result)

\* Errors.NotFound(resource): the message is `${resource} not found`
NotFoundError(resource) ==
    [code |-> NOT_FOUND, message |-> <<resource, " not found">>]

NoError == [code |-> None, message |-> <<>>]

\* Fault variant of RethrowNotFound: every error becomes Errors.Internal.
RethrowAsInternal(err) == IF err = NoError THEN "ok" ELSE INTERNAL_ERROR

\* The catch block of the delete methods: an error whose message includes
\* 'not found' is thrown on, any other becomes Errors.Internal.
RethrowNotFound(err) ==
    IF err = NoError THEN "ok"
    ELSE IF \E i \in 1..Len(err.message) : err.message[i] = " not found"
         THEN err.code
         ELSE INTERNAL_ERROR

\* ------------------------------------------------------------ templates
TemplateIds == {t.id : t \in templates}

TemplateById(id) == CHOOSE t \in templates : t.id = id

DefaultRows == {t \in templates : t.is_default}

\* Fault variant of ClearDefault: the previous default keeps its flag.
ClearDefaultNone(rows) == rows

\* UPDATE templates SET is_default = 0 WHERE is_default = 1
ClearDefault(rows) == {[t EXCEPT !.is_default = FALSE] : t \in rows}

\* created_at of a new row: CURRENT_TIMESTAMP has one-second resolution, so
\* it equals the newest existing created_at or is later.
NewestCreatedAt(rows) ==
    IF rows = {} THEN 0
    ELSE CHOOSE c \in {t.created_at : t \in rows} :
             \A t \in rows : t.created_at <= c

\* TemplateService.getTemplate: the id of the row found, NULL for null
getTemplateRow(id) ==
    IF id \in TemplateIds THEN id ELSE NULL

\* getAllTemplates()[0]: ORDER BY is_default DESC, created_at DESC; rows that
\* tie on both keys come in an order SQL does not fix.
FirstListed(rows) ==
    LET top == IF \E t \in rows : t.is_default
               THEN {t \in rows : t.is_default} ELSE rows
    IN {t \in top : t.created_at = NewestCreatedAt(top)}

\* Fault variant of getDefaultTemplate: only a flagged row is returned.
getDefaultTemplateFlaggedOnly == DefaultRows

\* TemplateService.getDefaultTemplate: the set of rows it may return
\* (empty set: it returns null).
getDefaultTemplate ==
    IF DefaultRows # {} THEN DefaultRows ELSE FirstListed(templates)

\* TestPlanService.getTemplate: the ids it may resolve to; the empty set
\* means it throws Errors.NotFound('Template').
getTemplate(templateId) ==
    IF templateId # NULL /\ getTemplateRow(templateId) # NULL
    THEN {templateId}
    ELSE {t.id : t \in getDefaultTemplate}

\* TemplateService.deleteTemplate: what the call ends with
deleteTemplateResult(id) ==
    RethrowNotFound(IF getTemplateRow(id) = NULL
                    THEN NotFoundError("Template") ELSE NoError)

\* TemplateService.shouldBeDefault / hasTemplates / getCount
shouldBeDefault == templates = {}

\* TemplateService.insertTemplate
insertTemplate(rows, id, name, isDefault, createdAt) ==
    (IF isDefault THEN ClearDefault(rows) ELSE rows)
        \cup {[id |-> id, name |-> name, is_default |-> isDefault,
               created_at |-> createdAt]}

\* The body of updateTemplate once the row is known to exist; name = None
\* and isDefault = None stand for an absent field.
UpdatedTemplates(rows, id, name, isDefault) ==
    LET cleared == IF isDefault = "true" THEN ClearDefault(rows) ELSE rows
    IN {IF t.id # id THEN t
        ELSE [t EXCEPT !.name = IF name = None THEN @ ELSE name,
                       !.is_default = IF isDefault = None THEN @
                                      ELSE isDefault = "true"]
        : t \in cleared}

\* Fault variant of NullTemplateRefs: ON DELETE CASCADE.
CascadeTemplateRefs(h, id) == SelectSeq(h, LAMBDA row : row.template_id # id)

\* FOREIGN KEY (template_id) REFERENCES templates(id) ON DELETE SET NULL
RECURSIVE NullTemplateRefs(_, _)
NullTemplateRefs(h, id) ==
    IF h = <<>> THEN <<>>
    ELSE <<IF Head(h).template_id = id
           THEN [Head(h) EXCEPT !.template_id = NULL] ELSE Head(h)>>
         \o NullTemplateRefs(Tail(h), id)

\* FOREIGN KEY (ticket_id) REFERENCES jira_tickets(id) ON DELETE SET NULL
RECURSIVE NullTicketRefs(_, _)
NullTicketRefs(h, id) ==
    IF h = <<>> THEN <<>>
    ELSE <<IF Head(h).ticket_id = id
           THEN [Head(h) EXCEPT !.ticket_id = NULL] ELSE Head(h)>>
         \o NullTicketRefs(Tail(h), id)

\* ---------------------------------------------------------- ticket cache
CachedKeys == {t.ticket_key : t \in jira_tickets}

TicketByKey(key) == CHOOSE t \in jira_tickets : t.ticket_key = key

NoTicket == [key |-> None, summary |-> None]

\* JiraTicketService.getTicket / rowToResponse; NoTicket for null
getCachedTicket(key) ==
    IF key \in CachedKeys
    THEN [key |-> key, summary |-> TicketByKey(key).summary]
    ELSE NoTicket

\* Fault variant of saveTicket: a plain INSERT, no ON CONFLICT clause.
saveTicketInsertOnly(rows, rowId, ticket) ==
    rows \cup {[id |-> rowId, ticket_key |-> ticket.key,
                summary |-> ticket.summary, fetched_at |-> now]}

\* Fault variant of saveTicket: INSERT OR REPLACE, the row gets a new id.
saveTicketReplace(rows, rowId, ticket) ==
    {t \in rows : t.ticket_key # ticket.key}
        \cup {[id |-> rowId, ticket_key |-> ticket.key,
               summary |-> ticket.summary, fetched_at |-> now]}

\* JiraTicketService.saveTicket: INSERT ... ON CONFLICT(ticket_key) DO UPDATE
saveTicket(rows, rowId, ticket) ==
    IF \E t \in rows : t.ticket_key = ticket.key
    THEN {IF t.ticket_key = ticket.key
          THEN [t EXCEPT !.summary = ticket.summary, !.fetched_at = now]
          ELSE t : t \in rows}
    ELSE rows \cup {[id |-> rowId, ticket_key |-> ticket.key,
                     summary |-> ticket.summary, fetched_at |-> now]}

\* ------------------------------------------------------------- settings
\* A NULL secret column is <<>>.  encrypt: the stored text iv:authTag:data,
\* its three parts kept apart; the iv is drawn at random for each call.
encrypt(text, iv) == <<iv, "authTag", text>>

\* isEncrypted: three parts
isEncrypted(value) == Len(value) = 3

\* decrypt, under the key the value was encrypted with
decrypt(value) == value[3]

\* SettingsService.decryptField
decryptField(value) ==
    IF value = <<>> THEN ""
    ELSE IF isEncrypted(value) THEN decrypt(value) ELSE value

\* SettingsService.rowToSettings
rowToSettings(row) ==
    [row EXCEPT !.jira_api_token = decryptField(@),
                !.groq_api_key = decryptField(@)]

\* the settings row as created by INSERT OR IGNORE INTO settings (id)
DefaultSettingsRow ==
    [jira_base_url |-> "", jira_username |-> "", jira_api_token |-> <<>>,
     jira_connected |-> FALSE,
     llm_provider |-> "groq", groq_api_key |-> <<>>,
     groq_model |-> "llama3-70b-8192", groq_temperature |-> 7,
     ollama_base_url |-> "http://localhost:11434",
     ollama_model |-> "llama3"]

\* SettingsService.getJiraConfig over a settings object
JiraConfigOf(s) ==
    [baseUrl |-> s.jira_base_url,
     username |-> s.jira_username,
     apiToken |-> s.jira_api_token,
     isConnected |-> s.jira_connected]

\* SettingsService.getJiraConfig
getJiraConfig == JiraConfigOf(rowToSettings(settings))

\* SettingsService.getLLMConfig over a settings object; temperatures are
\* in tenths, and a temperature of 0 reads as the default 0.7
LLMConfigOf(s) ==
    [provider |-> s.llm_provider,
     groq |-> [apiKey |-> s.groq_api_key,
               model |-> s.groq_model,
               temperature |-> IF s.groq_temperature = 0 THEN 7
                               ELSE s.groq_temperature],
     ollama |-> [baseUrl |-> s.ollama_base_url, model |-> s.ollama_model]]

\* SettingsService.getLLMConfig
getLLMConfig == LLMConfigOf(rowToSettings(settings))

\* TestPlanService.getTemperature, in tenths
getTemperature(provider) ==
    IF provider = "groq" THEN getLLMConfig.groq.temperature ELSE 7

\* Fault variant of JiraSettingsBody: the token is sent along.
JiraSettingsBodyWithToken(config) ==
    [baseUrl |-> config.baseUrl,
     username |-> config.username,
     isConnected |-> config.isConnected,
     hasCredentials |-> config.baseUrl # "" /\ config.username # ""
                            /\ config.apiToken # "",
     apiToken |-> config.apiToken]

\* GET /api/settings/jira: the data of the response
JiraSettingsBody(config) ==
    [baseUrl |-> config.baseUrl,
     username |-> config.username,
     isConnected |-> config.isConnected,
     hasCredentials |-> config.baseUrl # "" /\ config.username # ""
                            /\ config.apiToken # ""]

\* GET /api/settings/llm: the data of the response
LLMSettingsBody(config) ==
    [provider |-> config.provider,
     groq |-> [model |-> config.groq.model,
               temperature |-> config.groq.temperature,
               hasApiKey |-> config.groq.apiKey # ""],
     ollama |-> [baseUrl |-> config.ollama.baseUrl,
                 model |-> config.ollama.model]]

\* Fault variant of JiraConfigured: the configuration is not looked at.
JiraConfiguredUnchecked == TRUE

\* the guard of TestPlanService.getTicket on a cache miss
JiraConfigured == getJiraConfig.baseUrl # "" /\ getJiraConfig.apiToken # ""

\* the guard of getJiraClient in the JIRA routes
JiraClientAvailable ==
    /\ getJiraConfig.baseUrl # ""
    /\ getJiraConfig.username # ""
    /\ getJiraConfig.apiToken # ""

\* ------------------------------------------------------------------ run
IdleRun ==
    [pc |-> "idle", ticketId |-> None, templateId |-> NULL,
     provider |-> None, consumer |-> None,
     events |-> <<>>, ticket |-> NoTicket, template |-> NULL,
     fullContent |-> <<>>, raised |-> None,
     trackerCalls |-> 0, providerCalls |-> 0,
     failure |-> None, upstreamFailure |-> None,
     cacheMiss |-> FALSE, ticketSaved |-> FALSE,
     persistEntered |-> FALSE, writeFailed |-> FALSE, rowsWritten |-> <<>>,
     pFull |-> <<>>, chunkCount |-> 0, upCount |-> 0,
     providerDone |-> FALSE, providerFinal |-> <<>>,
     buffer |-> <<>>, wireAt |-> "lineStart", fragsSent |-> 0,
     thrown |-> PlainError(None),
     sse |-> <<>>, content |-> <<>>, error |-> None, response |-> None,
     disconnectedAt |-> NoProgress,
     pEvents |-> <<>>, pRaised |-> None,
     sent |-> [text |-> <<>>, done |-> FALSE, after |-> FALSE],
     temperature |-> 0 - 1,
     upload |-> [name |-> None, id |-> NULL, sawEmpty |-> FALSE]]

Init ==
    /\ templates = {}
    /\ nextTemplateId = 1
    /\ jira_tickets = {}
    /\ nextTicketRowId = 1
    /\ test_plan_history = <<>>
    /\ nextHistoryId = 1
    /\ settings = DefaultSettingsRow
    /\ files = {}
    /\ now = 0
    /\ reply = NoReply
    /\ run = [r \in AllRuns |-> IdleRun]


\* ------------------------------------------------- template operations
\* POST /api/templates/upload -> TemplateService.createTemplate: the part
\* after the PDF was parsed and written (shouldBeDefault, insertTemplate).
\* later = TRUE when the clock has moved on since the newest row.
UploadTemplate(name, later) ==
    /\ nextTemplateId <= MaxTemplates
    /\ templates' = insertTemplate(templates, nextTemplateId, name,
                                   shouldBeDefault,
                                   IF later \/ templates = {}
                                   THEN NewestCreatedAt(templates) + 1
                                   ELSE NewestCreatedAt(templates))
    /\ nextTemplateId' = nextTemplateId + 1
    /\ files' = files \cup {nextTemplateId}
    /\ UNCHANGED <<jira_tickets, nextTicketRowId, test_plan_history,
                   nextHistoryId, settings, now, run>>

\* PUT /api/templates/:id -> TemplateService.updateTemplate
UpdateTemplate(id, name, isDefault) ==
    /\ ~(name = None /\ isDefault = None)
    /\ IF getTemplateRow(id) = NULL
       THEN UNCHANGED templates
       ELSE templates' = UpdatedTemplates(templates, id, name, isDefault)
    /\ UNCHANGED <<nextTemplateId, jira_tickets, nextTicketRowId,
                   test_plan_history, nextHistoryId, settings, files, now,
                   run>>

\* POST /api/templates/:id/default -> TemplateService.setAsDefault
SetAsDefault(id) ==
    /\ IF getTemplateRow(id) = NULL
       THEN UNCHANGED templates
       ELSE templates' = UpdatedTemplates(templates, id, None, "true")
    /\ UNCHANGED <<nextTemplateId, jira_tickets, nextTicketRowId,
                   test_plan_history, nextHistoryId, settings, files, now,
                   run>>

\* DELETE /api/templates/:id -> TemplateService.deleteTemplate
DeleteTemplate(id) ==
    /\ IF deleteTemplateResult(id) # "ok"
       THEN UNCHANGED <<templates, test_plan_history, files>>
       ELSE /\ files' = files \ {id}
            /\ templates' = {t \in templates : t.id # id}
            /\ test_plan_history' = NullTemplateRefs(test_plan_history, id)
    /\ UNCHANGED <<nextTemplateId, jira_tickets, nextTicketRowId,
                   nextHistoryId, settings, now, run>>

\* ------------------------------------------- cache / settings operations
\* DELETE /api/jira/ticket/:ticketId -> JiraTicketService.deleteTicket
DeleteTicket(key) ==
    /\ key \in CachedKeys
    /\ jira_tickets' = {t \in jira_tickets : t.ticket_key # key}
    /\ test_plan_history' =
           NullTicketRefs(test_plan_history, TicketByKey(key).id)
    /\ UNCHANGED <<templates, nextTemplateId, nextTicketRowId, nextHistoryId,
                   settings, files, now, run>>

\* GET /api/jira/fetch/:ticketId when the tracker answers: fetchTicket,
\* then saveTicket
FetchTicketRoute(key, summary) ==
    /\ JiraClientAvailable
    /\ key \in CachedKeys \/ nextTicketRowId <= MaxTicketRows
    /\ jira_tickets' = saveTicket(jira_tickets, nextTicketRowId,
                                  [key |-> key, summary |-> summary])
    /\ nextTicketRowId' =
           IF key \in CachedKeys THEN nextTicketRowId ELSE nextTicketRowId + 1
    /\ UNCHANGED <<templates, nextTemplateId, test_plan_history,
                   nextHistoryId, settings, files, now, run>>

\* POST /api/settings/jira -> SettingsService.saveJiraSettings (the
\* validator admits only non-empty baseUrl, username and apiToken)
SaveJiraSettingsWith(data, iv) ==
    /\ settings' = [settings EXCEPT
                        !.jira_base_url = data.baseUrl,
                        !.jira_username = data.username,
                        !.jira_api_token = encrypt(data.apiToken, iv),
                        !.jira_connected = FALSE]
    /\ UNCHANGED <<templates, nextTemplateId, jira_tickets, nextTicketRowId,
                   test_plan_history, nextHistoryId, files, now, run>>

SaveJiraSettings ==
    SaveJiraSettingsWith([baseUrl |-> "url", username |-> "user",
                          apiToken |-> "token"], 1)

\* POST /api/settings/jira/test when credentials are stored: when the
\* tracker answers, setJiraConnected(true); when it does not,
\* JiraClient.testConnection rethrows and the route ends before
\* setJiraConnected
TestJiraConnection(success) ==
    /\ JiraClientAvailable
    /\ settings' = IF success THEN [settings EXCEPT !.jira_connected = TRUE]
                   ELSE settings
    /\ UNCHANGED <<templates, nextTemplateId, jira_tickets, nextTicketRowId,
                   test_plan_history, nextHistoryId, files, now, run>>

\* COALESCE(?, column) with None for a parameter bound to null
Coalesce(param, column) == IF param = None THEN column ELSE param

NoTemperature == 0 - 1

\* POST /api/settings/llm -> SettingsService.saveLLMSettings; an absent or
\* empty groqApiKey leaves the stored key as it is
SaveLLMSettings(data, iv) ==
    /\ settings' = [settings EXCEPT
           !.llm_provider = data.provider,
           !.groq_api_key = IF data.groqApiKey \in {None, ""} THEN @
                            ELSE encrypt(data.groqApiKey, iv),
           !.groq_model = Coalesce(data.groqModel, @),
           !.groq_temperature = IF data.groqTemperature = NoTemperature
                                THEN @ ELSE data.groqTemperature,
           !.ollama_base_url = Coalesce(data.ollamaBaseUrl, @),
           !.ollama_model = Coalesce(data.ollamaModel, @)]
    /\ UNCHANGED <<templates, nextTemplateId, jira_tickets, nextTicketRowId,
                   test_plan_history, nextHistoryId, files, now, run>>

\* GET /api/settings/jira
GetJiraSettings ==
    /\ Answers("GET /settings/jira", NULL, JiraSettingsBody(getJiraConfig))
    /\ UNCHANGED <<templates, nextTemplateId, jira_tickets, nextTicketRowId,
                   test_plan_history, nextHistoryId, settings, files, now,
                   run>>

\* GET /api/settings/llm
GetLLMSettings ==
    /\ Answers("GET /settings/llm", NULL, LLMSettingsBody(getLLMConfig))
    /\ UNCHANGED <<templates, nextTemplateId, jira_tickets, nextTicketRowId,
                   test_plan_history, nextHistoryId, settings, files, now,
                   run>>

\* --------------------------------------------------------------- events
Progress(msg, p) == [type |-> "progress", data |-> <<msg>>, progress |-> p]
Content(text, p) == [type |-> "content", data |-> text, progress |-> p]
Complete(text) == [type |-> "complete", data |-> text, progress |-> Pct(100)]
ErrorEvent(msg) == [type |-> "error", data |-> <<msg>>, progress |-> NoProgress]
DoneMarker == [type |-> "done", data |-> <<>>, progress |-> NoProgress]

IsTerminal(e) == e.type \in {"complete", "error"}

Ended == {"done", "raised", "returned"}

\* --------------------------------------------------------------- routes
\* The body of the consumer's for-await loop for one event.
\* POST /generate: sendSSE(res, event).  POST /generate-sync: fold the
\* event into content / error.
Consume(rec, e) ==
    LET seen == [rec EXCEPT !.events = Append(@, e)]
    IN IF rec.consumer = "stream"
       THEN [seen EXCEPT !.sse = Append(@, e)]
       ELSE IF e.type = "content"
            THEN [seen EXCEPT !.content = @ \o e.data]
            ELSE IF e.type = "complete"
                 THEN [seen EXCEPT !.content = e.data]
                 ELSE IF e.type = "error"
                      THEN [seen EXCEPT !.error = e.data[1]]
                      ELSE seen

\* Fault variant of Breaks: the streaming route never leaves its loop early.
BreaksNever(rec, e) == FALSE

\* POST /generate breaks out of its loop on the first complete or error,
\* which returns the generator where it is suspended.
Breaks(rec, e) == rec.consumer = "stream" /\ IsTerminal(e)

\* The generator yields evs, one at a time, and then continues at nextpc
\* unless its consumer stopped it.
RECURSIVE Deliver(_, _, _)
Deliver(rec, evs, nextpc) ==
    IF evs = <<>> THEN [rec EXCEPT !.pc = nextpc]
    ELSE IF Breaks(rec, Head(evs))
         THEN [Consume(rec, Head(evs)) EXCEPT !.pc = "returned"]
         ELSE Deliver(Consume(rec, Head(evs)), Tail(evs), nextpc)

\* What the route does once the generator has ended or raised.
RouteFinish(rec) ==
    IF rec.pc \notin Ended THEN rec
    ELSE IF rec.consumer = "stream"
         THEN IF rec.pc = "raised"
              THEN [rec EXCEPT !.sse = @ \o <<ErrorEvent(rec.raised), DoneMarker>>,
                               !.response = "closed"]
              ELSE [rec EXCEPT !.sse = Append(@, DoneMarker),
                               !.response = "closed"]
         ELSE IF rec.pc = "raised"
              THEN [rec EXCEPT !.response = rec.raised]
              ELSE IF rec.error # None /\ rec.error # ""
                   THEN [rec EXCEPT !.response = BAD_GATEWAY]
                   ELSE [rec EXCEPT !.response = "success"]

\* Fault variant of Caught: every exception becomes an error event.
CaughtAsEvent(rec, err) == Deliver(rec, <<ErrorEvent(err.code)>>, "done")

\* Fault variant of Caught: a failed provider call is tried once more.
CaughtRetry(rec, err) ==
    IF rec.providerCalls = 1 /\ rec.upstreamFailure # None
    THEN [rec EXCEPT !.pc = "upstream", !.providerCalls = 2,
                     !.upstreamFailure = None, !.pRaised = None]
    ELSE IF err.isApi
         THEN [rec EXCEPT !.pc = "raised", !.raised = err.code]
         ELSE Deliver(rec, <<ErrorEvent(err.code)>>, "done")

\* The catch block of TestPlanService.generate.
Caught(rec, err) ==
    IF err.isApi
    THEN [rec EXCEPT !.pc = "raised", !.raised = err.code]
    ELSE Deliver(rec, <<ErrorEvent(err.code)>>, "done")


\* ------------------------------------------------------------ generate
\* TestPlanService.generate up to its first real suspension: the first
\* progress event and the cache lookup of getTicket.
StartGenerate(r, ticketId, templateId, provider, consumer) ==
    /\ run[r].pc = "idle"
    /\ LET rec0 == [IdleRun EXCEPT !.ticketId = ticketId,
                                   !.templateId = templateId,
                                   !.provider = provider,
                                   !.consumer = consumer]
           rec1 == Deliver(rec0, <<Progress("Fetching JIRA ticket...", Pct(5))>>,
                           "getTicket")
           cached == getCachedTicket(ticketId)
       IN run' = [run EXCEPT ![r] =
              IF cached # NoTicket
              THEN Deliver([rec1 EXCEPT !.ticket = cached],
                           <<Progress("Ticket found", Pct(15))>>, "getTemplate")
              ELSE IF ~JiraConfigured
                   THEN RouteFinish(Caught([rec1 EXCEPT
                                                !.cacheMiss = TRUE,
                                                !.failure = "precondition",
                                                !.thrown = ApiError(BAD_REQUEST)],
                                           ApiError(BAD_REQUEST)))
                   ELSE [rec1 EXCEPT !.pc = "fetching", !.cacheMiss = TRUE,
                                     !.trackerCalls = @ + 1]]
    /\ UNCHANGED <<dbVars>>

\* JiraClient.handleError / fetchTicket: what a failed tracker call throws.
\* An HTTP error status, a refused or timed-out connection becomes an
\* ApiError; any other failure stays a plain Error.
TrackerErrors ==
    {ApiError(UNAUTHORIZED), ApiError(FORBIDDEN), ApiError(NOT_FOUND),
     ApiError(TOO_MANY_REQUESTS), ApiError(BAD_GATEWAY),
     PlainError("Network Error")}

\* getTicket after a cache miss: jiraClient.fetchTicket resolved with a
\* ticket; saveTicket upserts it (saved = FALSE: the statement failed).
FetchTicketOk(r, summary, saved) ==
    /\ run[r].pc = "fetching"
    /\ run[r].ticketId \in CachedKeys \/ nextTicketRowId <= MaxTicketRows
    /\ LET ticket == [key |-> run[r].ticketId, summary |-> summary]
       IN IF saved
          THEN /\ jira_tickets' = saveTicket(jira_tickets, nextTicketRowId, ticket)
               /\ nextTicketRowId' =
                      IF ticket.key \in CachedKeys THEN nextTicketRowId
                      ELSE nextTicketRowId + 1
               /\ run' = [run EXCEPT ![r] =
                      Deliver([run[r] EXCEPT !.ticket = ticket,
                                             !.ticketSaved = TRUE],
                              <<Progress("Ticket found", Pct(15))>>,
                              "getTemplate")]
          ELSE /\ UNCHANGED <<jira_tickets, nextTicketRowId>>
               /\ run' = [run EXCEPT ![r] =
                      RouteFinish(Caught([run[r] EXCEPT
                                              !.failure = "cache",
                                              !.thrown = ApiError(INTERNAL_ERROR)],
                                         ApiError(INTERNAL_ERROR)))]
    /\ UNCHANGED <<templates, nextTemplateId, test_plan_history, nextHistoryId,
                   settings, files, now, reply>>

\* getTicket after a cache miss: jiraClient.fetchTicket rejected.
FetchTicketFail(r, err) ==
    /\ run[r].pc = "fetching"
    /\ run' = [run EXCEPT ![r] =
           RouteFinish(Caught([run[r] EXCEPT !.failure = "tracker",
                                              !.thrown = err], err))]
    /\ UNCHANGED dbVars

\* The first yield of either provider's generateTestPlan.
ProviderHello(provider) ==
    IF provider = "groq"
    THEN Progress("Generating test plan with Groq...", Pct(10))
    ELSE Progress("Generating test plan with Ollama (local)...", Pct(10))

\* Fault variant of Accumulate: the fragment is put in front.
AccumulatePrepend(full, e) ==
    IF e.type = "content" THEN e.data \o full ELSE full

\* Fault variant of Accumulate: the data of every event is appended.
AccumulateEvery(full, e) == full \o e.data

\* generate's for-await body, first statement: fullContent += event.data
\* for a content event
Accumulate(full, e) == IF e.type = "content" THEN full \o e.data ELSE full

\* The body of generate's for-await loop for the events evs the provider
\* yields in one go: accumulate content, then forward the event.
RECURSIVE Forward(_, _, _)
Forward(rec, evs, nextpc) ==
    IF evs = <<>> THEN [rec EXCEPT !.pc = nextpc]
    ELSE LET e == Head(evs)
             acc == [rec EXCEPT !.fullContent = Accumulate(@, e),
                                !.pEvents = Append(@, e)]
         IN IF Breaks(acc, e)
            THEN [Consume(acc, e) EXCEPT !.pc = "returned"]
            ELSE Forward(Consume(acc, e), Tail(evs), nextpc)

\* Steps 2 to 4 of generate up to the provider's upstream call: resolve
\* the template, build the context, create the provider and start it.
ResolveTemplate(r) ==
    /\ run[r].pc = "getTemplate"
    /\ LET rec1 == Deliver(run[r], <<Progress("Loading template...", Pct(20))>>,
                           "getTemplate")
           found == getTemplate(run[r].templateId)
       IN IF found = {}
          THEN run' = [run EXCEPT ![r] =
                   RouteFinish(Caught([rec1 EXCEPT
                                           !.failure = "template",
                                           !.thrown = ApiError(NOT_FOUND)],
                                      ApiError(NOT_FOUND)))]
          ELSE \E id \in found :
                   run' = [run EXCEPT ![r] =
                       Forward(Deliver([rec1 EXCEPT !.template = id,
                                                    !.temperature =
                                                        getTemperature(run[r].provider),
                                                    !.providerCalls = @ + 1],
                                       <<Progress("Template loaded", Pct(25)),
                                         Progress("Generating...", Pct(30))>>,
                                       "getTemplate"),
                               <<ProviderHello(run[r].provider)>>,
                               "upstream")]
    /\ UNCHANGED dbVars

\* A provider's generator has finished (returned or thrown): its local
\* variables are gone.
ProviderReturned(rec) ==
    [rec EXCEPT !.upCount = 0, !.chunkCount = 0, !.buffer = <<>>,
                !.wireAt = "lineStart", !.fragsSent = 0]

\* ---------------------------------------------------------------- Groq
GroqFailures ==
    {"api401", "api429", "api500", "api400", "timeout", "other", "blank"}

\* error.message of a failure handleError does not classify; "blank" is an
\* Error constructed without a message
GroqErrorMessage(kind) == IF kind = "blank" THEN "" ELSE "upstream failed"


\* create() can be rejected with any of them; once the stream is open the
\* failures considered are a server error and an unclassified one
GroqFailuresAt(pc) ==
    IF pc = "upstream" THEN GroqFailures ELSE {"api500", "other"}

\* Fault variant of GroqHandleError: nothing is classified or thrown.
GroqHandleErrorSilent(kind) == None

\* GroqProvider.handleError: the ApiError it throws, or None when it
\* returns normally.
GroqHandleError(kind) ==
    IF kind = "api401" THEN UNAUTHORIZED
    ELSE IF kind = "api429" THEN TOO_MANY_REQUESTS
    ELSE IF kind = "api500" THEN BAD_GATEWAY
    ELSE IF kind = "api400" THEN BAD_GATEWAY
    ELSE IF kind = "timeout" THEN BAD_GATEWAY
    ELSE None

\* client.chat.completions.create resolved with a stream
GroqStreamOpen(r) ==
    /\ run[r].pc = "upstream"
    /\ run[r].provider = "groq"
    /\ run' = [run EXCEPT ![r].pc = "streaming"]
    /\ UNCHANGED dbVars

\* the progress a Groq content event carries
GroqProgress(count, full) ==
    IF count % 5 = 0 THEN Min(Pct(10) + Len(full), Pct(90)) ELSE NoProgress

\* one chunk of the Groq stream with delta content c (possibly empty)
GroqChunk(r, c) ==
    /\ run[r].pc = "streaming"
    /\ run[r].provider = "groq"
    /\ run[r].upCount < MaxChunks
    /\ LET rec1 == [run[r] EXCEPT !.upCount = @ + 1]
           full == run[r].pFull \o c
           count == run[r].chunkCount + 1
       IN run' = [run EXCEPT ![r] =
              IF c = <<>> THEN rec1
              ELSE RouteFinish(
                       Forward([rec1 EXCEPT !.pFull = full,
                                            !.chunkCount = count],
                               <<Content(c, GroqProgress(count, full))>>,
                               "streaming"))]
    /\ UNCHANGED dbVars

\* the Groq stream ended: the provider yields complete and returns
GroqEnd(r) ==
    /\ run[r].pc = "streaming"
    /\ run[r].provider = "groq"
    /\ run' = [run EXCEPT ![r] =
           RouteFinish(Forward([ProviderReturned(run[r]) EXCEPT
                                    !.providerDone = TRUE,
                                    !.providerFinal = run[r].pFull],
                               <<Complete(run[r].pFull)>>, "afterStream"))]
    /\ UNCHANGED dbVars

\* create() rejected or the stream threw: the catch of generateTestPlan
GroqFail(r, kind) ==
    /\ run[r].pc \in {"upstream", "streaming"}
    /\ run[r].provider = "groq"
    /\ kind \in GroqFailuresAt(run[r].pc)
    /\ LET rec1 == [ProviderReturned(run[r]) EXCEPT !.upstreamFailure = kind]
       IN run' = [run EXCEPT ![r] =
              RouteFinish(
                  IF GroqHandleError(kind) # None
                  THEN Caught([rec1 EXCEPT !.pRaised = GroqHandleError(kind)],
                              ApiError(GroqHandleError(kind)))
                  ELSE Forward(rec1, <<ErrorEvent(GroqErrorMessage(kind))>>,
                               "afterStream"))]
    /\ UNCHANGED dbVars

\* -------------------------------------------------------------- Ollama
\* The daemon's byte stream as tokens: a JSON fragment is an opening token
\* carrying its fields and a closing token, a line that is not JSON is a
\* junk token, lines are separated by a newline token.
NL == [k |-> "nl", response |-> <<>>, done |-> FALSE]
CloseTok == [k |-> "close", response |-> <<>>, done |-> FALSE]
JunkTok == [k |-> "junk", response |-> <<>>, done |-> FALSE]

OpenToks ==
    [k : {"open"}, response : {<<>>} \cup {<<c>> : c \in Chars},
     done : BOOLEAN]

\* What the daemon may send next, as one network chunk, when its stream
\* stands at `at` and it has k more lines to begin.
RECURSIVE Conts(_, _)
Conts(at, k) ==
    {<<>>} \cup
    (IF at = "lineStart"
     THEN IF k = 0 THEN {}
          ELSE {<<t>> \o c : t \in OpenToks, c \in Conts("inFragment", k - 1)}
                   \cup {<<JunkTok>> \o c : c \in Conts("lineEnd", k - 1)}
     ELSE IF at = "inFragment"
          THEN {<<CloseTok>> \o c : c \in Conts("lineEnd", k)}
          ELSE {<<NL>> \o c : c \in Conts("lineStart", k)})

\* where the stream stands after toks were sent from `at`
AtAfter(at, toks) ==
    IF toks = <<>> THEN at
    ELSE IF Last(toks).k = "open" THEN "inFragment"
         ELSE IF Last(toks).k = "nl" THEN "lineStart"
              ELSE "lineEnd"

\* the number of lines begun in toks
LinesStarted(toks) ==
    Cardinality({i \in 1..Len(toks) : toks[i].k \in {"open", "junk"}})

\* What the daemon has sent in whole fragments: the text pieces of the
\* fragments up to and including the first one flagged done, whether that
\* one was sent, and whether a fragment was sent after it.  open is the
\* fragment being sent.
RECURSIVE Sent(_, _, _)
Sent(s, open, toks) ==
    IF toks = <<>> THEN s
    ELSE IF Head(toks).k = "open" THEN Sent(s, Head(toks), Tail(toks))
         ELSE IF Head(toks).k # "close" THEN Sent(s, open, Tail(toks))
              ELSE Sent(IF s.done THEN [s EXCEPT !.after = TRUE]
                        ELSE [s EXCEPT !.text = @ \o open.response,
                                       !.done = open.done],
                        open, Tail(toks))

\* buffer.split('\n'): the pieces between newlines, the last piece being
\* what follows the last newline
RECURSIVE Split(_, _)
Split(toks, cur) ==
    IF toks = <<>> THEN <<cur>>
    ELSE IF Head(toks) = NL
         THEN <<cur>> \o Split(Tail(toks), <<>>)
         ELSE Split(Tail(toks), Append(cur, Head(toks)))

\* JSON.parse(line) succeeds exactly on a whole fragment
Parses(line) ==
    /\ Len(line) = 2
    /\ line[1].k = "open"
    /\ line[2].k = "close"

\* the progress an Ollama content event carries
OllamaProgress(done, full) ==
    IF done THEN Pct(100) ELSE Min(Pct(10) + Len(full), Pct(95))

\* Fault variant of ProcessLines: no return after the done fragment, the
\* lines after it are processed as well.
RECURSIVE ProcessLinesNoReturn(_, _, _)
ProcessLinesNoReturn(lines, full, evs) ==
    IF lines = <<>>
    THEN [evs |-> evs, full |-> full,
          done |-> \E i \in 1..Len(evs) : evs[i].type = "complete"]
    ELSE LET line == Head(lines)
         IN IF line = <<>> \/ ~Parses(line)
            THEN ProcessLinesNoReturn(Tail(lines), full, evs)
            ELSE LET data == line[1]
                     full1 == full \o data.response
                     evs1 == IF data.response # <<>>
                             THEN Append(evs, Content(data.response,
                                             OllamaProgress(data.done, full1)))
                             ELSE evs
                 IN ProcessLinesNoReturn(Tail(lines), full1,
                        IF data.done THEN Append(evs1, Complete(full1))
                        ELSE evs1)

\* The inner loop over the complete lines of one chunk: the events
\* yielded, the text accumulated, and whether a done fragment ended it.
RECURSIVE ProcessLines(_, _, _)
ProcessLines(lines, full, evs) ==
    IF lines = <<>> THEN [evs |-> evs, full |-> full, done |-> FALSE]
    ELSE LET line == Head(lines)
         IN IF line = <<>> \/ ~Parses(line)
            THEN ProcessLines(Tail(lines), full, evs)
            ELSE LET data == line[1]
                     full1 == full \o data.response
                     evs1 == IF data.response # <<>>
                             THEN Append(evs, Content(data.response,
                                             OllamaProgress(data.done, full1)))
                             ELSE evs
                 IN IF data.done
                    THEN [evs |-> Append(evs1, Complete(full1)),
                          full |-> full1, done |-> TRUE]
                    ELSE ProcessLines(Tail(lines), full1, evs1)

\* OllamaProvider.handleError always throws an ApiError
OllamaFailures == {"ECONNREFUSED", "ETIMEDOUT", "http404", "other"}

\* axios.post can be rejected with any of them; a failure of the open
\* response stream is an unclassified one
OllamaFailuresAt(pc) == IF pc = "upstream" THEN OllamaFailures ELSE {"other"}

\* Fault variant of OllamaHandleError: a missing model is not told apart.
OllamaHandleErrorGateway(kind) == BAD_GATEWAY

OllamaHandleError(kind) ==
    IF kind = "ECONNREFUSED" THEN BAD_GATEWAY
    ELSE IF kind = "ETIMEDOUT" THEN BAD_GATEWAY
    ELSE IF kind = "http404" THEN NOT_FOUND
    ELSE BAD_GATEWAY

\* axios.post resolved with a response stream
OllamaResponse(r) ==
    /\ run[r].pc = "upstream"
    /\ run[r].provider = "ollama"
    /\ run' = [run EXCEPT ![r].pc = "streaming"]
    /\ UNCHANGED dbVars

\* one network chunk arrives: the body of the for-await over response.data
OllamaChunk(r, toks) ==
    /\ run[r].pc = "streaming"
    /\ run[r].provider = "ollama"
    /\ toks # <<>>
    /\ LET pieces == Split(run[r].buffer \o toks, <<>>)
           lines == SubSeq(pieces, 1, Len(pieces) - 1)
           res == ProcessLines(lines, run[r].pFull, <<>>)
           rec1 == [run[r] EXCEPT
                        !.wireAt = AtAfter(@, toks),
                        !.sent = Sent(@, IF run[r].buffer = <<>> THEN NL
                                         ELSE Last(run[r].buffer), toks),
                        !.fragsSent = @ + LinesStarted(toks),
                        !.buffer = Last(pieces),
                        !.pFull = res.full,
                        !.providerDone = res.done,
                        !.providerFinal = IF res.done THEN res.full ELSE @]
       IN run' = [run EXCEPT ![r] =
              RouteFinish(IF res.done
                          THEN Forward(ProviderReturned(rec1), res.evs,
                                       "afterStream")
                          ELSE Forward(rec1, res.evs, "streaming"))]
    /\ UNCHANGED dbVars

\* the response stream ended without a done fragment having been parsed
OllamaClose(r) ==
    /\ run[r].pc = "streaming"
    /\ run[r].provider = "ollama"
    /\ run' = [run EXCEPT ![r] =
           RouteFinish(Forward([ProviderReturned(run[r]) EXCEPT
                                    !.providerDone = TRUE,
                                    !.providerFinal = run[r].pFull],
                               <<Complete(run[r].pFull)>>, "afterStream"))]
    /\ UNCHANGED dbVars

\* axios.post rejected or the response stream failed
OllamaFail(r, kind) ==
    /\ run[r].pc \in {"upstream", "streaming"}
    /\ run[r].provider = "ollama"
    /\ kind \in OllamaFailuresAt(run[r].pc)
    /\ run' = [run EXCEPT ![r] =
           RouteFinish(Caught([ProviderReturned(run[r]) EXCEPT
                                   !.upstreamFailure = kind,
                                   !.pRaised = OllamaHandleError(kind)],
                              ApiError(OllamaHandleError(kind))))]
    /\ UNCHANGED dbVars

\* ------------------------------------------------------------- persist
\* Whether the INSERT of saveToHistory goes through.  It fails when the
\* statement fails (dbOk = FALSE) or when template_id references no row
\* (foreign_keys = ON).
HistoryInsertWorks(rec, dbOk) == dbOk /\ rec.template \in TemplateIds

\* Fault variant of HistoryRow: the text is kept in one accumulator of the
\* service, shared by the requests in progress.
HistoryRowShared(rec, id) ==
    [id |-> id,
     ticket_key |-> rec.ticket.key,
     ticket_id |-> IF rec.ticket.key \in CachedKeys
                   THEN TicketByKey(rec.ticket.key).id ELSE NULL,
     template_id |-> rec.template,
     llm_provider |-> rec.provider,
     generated_content |-> run["r1"].fullContent \o run["r2"].fullContent,
     created_at |-> now]

HistoryRow(rec, id) ==
    [id |-> id,
     ticket_key |-> rec.ticket.key,
     ticket_id |-> IF rec.ticket.key \in CachedKeys
                   THEN TicketByKey(rec.ticket.key).id ELSE NULL,
     template_id |-> rec.template,
     llm_provider |-> rec.provider,
     generated_content |-> rec.fullContent,
     created_at |-> now]

\* Fault variant of saveToHistory: the failure is thrown on.
saveToHistoryThrows(works) == IF works THEN "inserted" ELSE "thrown"

\* TestPlanService.saveToHistory as seen by its caller: the row id when the
\* INSERT went through; its catch block logs the failure and returns 0.
saveToHistory(works) == IF works THEN "inserted" ELSE "returned0"

\* the guard of step 5: if (fullContent)
ShouldPersist(rec) == rec.fullContent # <<>>

\* Step 5 of generate, entered when the provider's sequence has ended.  An
\* exception out of saveToHistory would land in generate's catch block.
Persist(r, dbOk) ==
    /\ run[r].pc = "afterStream"
    /\ IF ShouldPersist(run[r])
       THEN LET rec1 == Deliver([run[r] EXCEPT !.persistEntered = TRUE],
                                <<Progress("Saving to history...", Pct(95))>>,
                                "final")
                outcome == saveToHistory(HistoryInsertWorks(run[r], dbOk))
            IN IF outcome = "inserted"
               THEN /\ test_plan_history' =
                           Append(test_plan_history,
                                  HistoryRow(run[r], nextHistoryId))
                    /\ nextHistoryId' = nextHistoryId + 1
                    /\ run' = [run EXCEPT ![r] =
                           [rec1 EXCEPT !.rowsWritten =
                                Append(@, run[r].fullContent)]]
               ELSE /\ run' = [run EXCEPT ![r] =
                           IF outcome = "returned0"
                           THEN [rec1 EXCEPT !.writeFailed = TRUE]
                           ELSE RouteFinish(
                                    Caught([rec1 EXCEPT !.writeFailed = TRUE],
                                           ApiError(INTERNAL_ERROR)))]
                    /\ UNCHANGED <<test_plan_history, nextHistoryId>>
       ELSE /\ dbOk
            /\ run' = [run EXCEPT ![r].pc = "final"]
            /\ UNCHANGED <<test_plan_history, nextHistoryId>>
    /\ UNCHANGED <<templates, nextTemplateId, jira_tickets, nextTicketRowId,
                   settings, files, now, reply>>

\* Step 6 of generate: the final complete event
CompleteRun(r) ==
    /\ run[r].pc = "final"
    /\ run' = [run EXCEPT ![r] =
           RouteFinish(Deliver(run[r], <<Complete(run[r].fullContent)>>,
                               "done"))]
    /\ UNCHANGED dbVars

\* ------------------------------------------------------------------ Next
\* the template endpoints; names are the names given on upload, renames
\* the names given on update
TemplateOp(names, renames) ==
    \/ \E name \in names, later \in BOOLEAN : UploadTemplate(name, later)
    \/ \E id \in 1..MaxTemplates, name \in renames \cup {None},
          isDefault \in {"true", "false", None} :
           UpdateTemplate(id, name, isDefault)
    \/ \E id \in 1..MaxTemplates : SetAsDefault(id)
    \/ \E id \in 1..MaxTemplates : DeleteTemplate(id)

\* the ticket endpoints; summaries are the summaries the tracker may hold
CacheOp(summaries) ==
    \/ \E key \in TicketKeys, summary \in summaries :
           FetchTicketRoute(key, summary)
    \/ \E key \in TicketKeys : DeleteTicket(key)

\* a second passes on the database clock
Tick ==
    /\ now < MaxClock
    /\ now' = now + 1
    /\ UNCHANGED <<templates, nextTemplateId, jira_tickets, nextTicketRowId,
                   test_plan_history, nextHistoryId, settings, files, run>>

\* The store endpoints on their own, with every argument they accept.
StoresNext ==
    \/ \E name \in Names, later \in BOOLEAN :
           UploadTemplate(name, later) /\ Unobserved
    \/ \E id \in 1..MaxTemplates, name \in Names \cup {None},
          isDefault \in {"true", "false", None} :
           UpdateTemplate(id, name, isDefault) /\ Unobserved
    \/ \E id \in 1..MaxTemplates : SetAsDefault(id) /\ Unobserved
    \/ \E id \in 1..MaxTemplates :
           /\ DeleteTemplate(id)
           /\ Answers("DELETE /templates/:id", id, deleteTemplateResult(id))
    \/ CacheOp(Summaries) /\ Unobserved
    \/ SaveJiraSettings /\ Unobserved
    \/ \E success \in BOOLEAN : TestJiraConnection(success) /\ Unobserved
    \/ Tick /\ Unobserved

SpecStores == Init /\ [][StoresNext]_vars

\* some request stands at one of the positions pcs
At(pcs) == \E r \in Runs : run[r].pc \in pcs

\* --------------------------------------------------------------- history
\* DELETE FROM test_plan_history WHERE id = ?
RECURSIVE RemoveHistoryRow(_, _)
RemoveHistoryRow(h, id) ==
    IF h = <<>> THEN <<>>
    ELSE (IF Head(h).id = id THEN <<>> ELSE <<Head(h)>>)
             \o RemoveHistoryRow(Tail(h), id)

HistoryIds == {test_plan_history[i].id : i \in 1..Len(test_plan_history)}

\* TestPlanService.deleteTestPlan: what the call ends with
deleteTestPlanResult(id) ==
    RethrowNotFound(IF id \in HistoryIds
                    THEN NoError ELSE NotFoundError("Test plan"))

\* DELETE /api/testplan/history/:id -> TestPlanService.deleteTestPlan
DeleteTestPlan(id) ==
    /\ test_plan_history' = RemoveHistoryRow(test_plan_history, id)
    /\ UNCHANGED <<templates, nextTemplateId, jira_tickets, nextTicketRowId,
                   nextHistoryId, settings, files, now, run>>

\* The route has answered: the request is over and another can be made.
Respond(r) ==
    /\ run[r].pc \in Ended
    /\ run' = [run EXCEPT ![r] = IdleRun]
    /\ UNCHANGED dbVars

\* Generations through POST /generate-sync with the cloud provider, one
\* after the other, and the store endpoints between them.
HistoryNext ==
    \/ \E later \in BOOLEAN :
           At({"idle"}) /\ UploadTemplate("n1", later) /\ Unobserved
    \/ \E id \in 1..MaxTemplates :
           At({"idle"}) /\ SetAsDefault(id) /\ Unobserved
    \/ \E id \in 1..MaxTemplates :
           At({"idle"}) /\ UpdateTemplate(id, None, "false") /\ Unobserved
    \/ \E id \in 1..MaxTemplates :
           /\ At({"idle"})
           /\ DeleteTemplate(id)
           /\ Answers("DELETE /templates/:id", id, deleteTemplateResult(id))
    \/ At({"idle"}) /\ CacheOp({"s1"}) /\ Unobserved
    \/ At({"idle"}) /\ SaveJiraSettings /\ Unobserved
    \/ At({"idle"}) /\ Tick /\ Unobserved
    \/ \E id \in 1..MaxHistory :
           /\ At({"idle"})
           /\ DeleteTestPlan(id)
           /\ Answers("DELETE /history/:id", id, deleteTestPlanResult(id))
    \/ \E r \in Runs, templateId \in 0..MaxTemplates :
           /\ nextHistoryId <= MaxHistory
           /\ StartGenerate(r, "ABC-1", templateId, "groq", "sync")
    \/ \E r \in Runs : FetchTicketOk(r, "s1", TRUE)
    \/ \E r \in Runs : ResolveTemplate(r)
    \/ \E r \in Runs : GroqStreamOpen(r)
    \/ \E r \in Runs : GroqChunk(r, <<"a">>)
    \/ \E r \in Runs : GroqEnd(r)
    \/ \E r \in Runs : Persist(r, TRUE)
    \/ \E r \in Runs : CompleteRun(r)
    \/ \E r \in Runs : Respond(r)

SpecHistory == Init /\ [][HistoryNext]_vars

\* --------------------------------------------------------------- listing
\* the limit query parameters a caller may send; "" is no parameter
LimitQueries == {"", "abc", "-1", "0", "1", "2"}

\* parseInt of the query parameter: NaN for an absent or non-numeric one
parseInt(text) ==
    CASE text = "-1" -> [nan |-> FALSE, n |-> 0 - 1]
      [] text = "0" -> [nan |-> FALSE, n |-> 0]
      [] text = "1" -> [nan |-> FALSE, n |-> 1]
      [] text = "2" -> [nan |-> FALSE, n |-> 2]
      [] OTHER -> [nan |-> TRUE, n |-> 0]

DefaultLimit == 20

\* parseInt(req.query.limit) || 20: NaN and 0 are falsy
RouteLimit(text) ==
    IF parseInt(text).nan \/ parseInt(text).n = 0
    THEN DefaultLimit ELSE parseInt(text).n

\* ORDER BY h.created_at DESC: the orders of the rows the statement may
\* produce, as sequences of positions; rows of the same second come in
\* either order
CreatedDesc(h) ==
    {p \in [1..Len(h) -> 1..Len(h)] :
        /\ \A i, j \in 1..Len(h) : i # j => p[i] # p[j]
        /\ \A i, j \in 1..Len(h) :
               i < j => h[p[i]].created_at >= h[p[j]].created_at}

\* LIMIT ?: a negative limit is no limit
SqlLimit(rows, limit) ==
    IF limit < 0 THEN rows ELSE SubSeq(rows, 1, Min(limit, Len(rows)))

\* LEFT JOIN jira_tickets t ON h.ticket_id = t.id, then
\* row.ticket_summary || row.ticket_key
ListedRow(row) ==
    [id |-> row.id,
     ticketKey |-> row.ticket_key,
     createdAt |-> row.created_at,
     ticketSummary |->
         IF \E t \in jira_tickets : t.id = row.ticket_id
         THEN LET t == CHOOSE t \in jira_tickets : t.id = row.ticket_id
              IN IF t.summary # "" THEN t.summary ELSE row.ticket_key
         ELSE row.ticket_key]

\* TestPlanService.getHistory: the listings the call may return
getHistory(limit) ==
    {SqlLimit([i \in 1..Len(test_plan_history) |->
                  ListedRow(test_plan_history[p[i]])], limit)
        : p \in CreatedDesc(test_plan_history)}

\* GET /api/testplan/history; the declared paginationValidator is never
\* consulted, so every query parameter reaches getHistory
GetHistory(text) ==
    /\ \E listing \in getHistory(RouteLimit(text)) :
           Answers("GET /history", text, listing)
    /\ UNCHANGED <<templates, nextTemplateId, jira_tickets, nextTicketRowId,
                   test_plan_history, nextHistoryId, settings, files, now,
                   run>>

\* paginationValidator: query('limit').optional().isInt({min: 1, max: 100});
\* the messages express-validator records for the request
paginationValidator(text) ==
    IF text = "" THEN {}
    ELSE IF /\ ~parseInt(text).nan
            /\ parseInt(text).n >= 1
            /\ parseInt(text).n <= 100
         THEN {} ELSE {"Limit must be between 1 and 100"}

\* parseInt(req.query.limit) || 5
RecentLimit(text) ==
    IF parseInt(text).nan \/ parseInt(text).n = 0 THEN 5 ELSE parseInt(text).n

\* JiraTicketService.getRecentTickets: ORDER BY fetched_at DESC LIMIT ?
getRecentTickets(limit) ==
    {SqlLimit(rows, limit) :
        rows \in {s \in [1..Cardinality(jira_tickets) -> jira_tickets] :
                     /\ \A i, j \in DOMAIN s : i # j => s[i] # s[j]
                     /\ \A i, j \in DOMAIN s :
                            i < j => s[i].fetched_at >= s[j].fetched_at}}

\* GET /api/jira/recent; as in GET /history the messages of
\* paginationValidator are never read
GetRecent(text) ==
    /\ \E listing \in getRecentTickets(RecentLimit(text)) :
           Answers("GET /recent", text, listing)
    /\ UNCHANGED <<templates, nextTemplateId, jira_tickets, nextTicketRowId,
                   test_plan_history, nextHistoryId, settings, files, now,
                   run>>

\* Generations through POST /generate-sync with the cloud provider, one
\* after the other, the ticket endpoints and the history listing between
\* them.
ListingNext ==
    \/ At({"idle"}) /\ UploadTemplate("n1", TRUE) /\ Unobserved
    \/ At({"idle"}) /\ SaveJiraSettings /\ Unobserved
    \/ At({"idle"}) /\ CacheOp({"s1"}) /\ Unobserved
    \/ At({"idle"}) /\ Tick /\ Unobserved
    \/ \E text \in LimitQueries : At({"idle"}) /\ GetHistory(text)
    \/ \E text \in LimitQueries : At({"idle"}) /\ GetRecent(text)
    \/ \E r \in Runs :
           /\ nextHistoryId <= MaxHistory
           /\ StartGenerate(r, "ABC-1", NULL, "groq", "sync")
    \/ \E r \in Runs : FetchTicketOk(r, "s1", TRUE)
    \/ \E r \in Runs : ResolveTemplate(r)
    \/ \E r \in Runs : GroqStreamOpen(r)
    \/ \E r \in Runs : GroqChunk(r, <<"a">>)
    \/ \E r \in Runs : GroqEnd(r)
    \/ \E r \in Runs : Persist(r, TRUE)
    \/ \E r \in Runs : CompleteRun(r)
    \/ \E r \in Runs : Respond(r)

SpecListing == Init /\ [][ListingNext]_vars

\* ----------------------------------------------------------- concurrency
\* what each of two concurrent requests asks for and what its provider's
\* stream consists of
KeyOf(r) == IF r = "r1" THEN "ABC-1" ELSE "XY-2"
TemplateOf(r) == IF r = "r1" THEN 1 ELSE 2
CharOf(r) == IF r = "r1" THEN "a" ELSE "b"

\* the lines the daemon may send to request r in one chunk
OwnLines(r) ==
    {<<[k |-> "open", response |-> <<CharOf(r)>>, done |-> d],
       CloseTok, NL>> : d \in BOOLEAN}

\* Two templates were uploaded and two tickets fetched, nothing generated.
InitConcurrent ==
    /\ now = 0
    /\ templates = insertTemplate(insertTemplate({}, 1, "n1", TRUE, 1),
                                  2, "n2", FALSE, 2)
    /\ nextTemplateId = 3
    /\ files = {1, 2}
    /\ jira_tickets =
           {[id |-> 1, ticket_key |-> "ABC-1", summary |-> "s1",
             fetched_at |-> 0],
            [id |-> 2, ticket_key |-> "XY-2", summary |-> "s2",
             fetched_at |-> 0]}
    /\ nextTicketRowId = 3
    /\ test_plan_history = <<>>
    /\ nextHistoryId = 1
    /\ settings = [DefaultSettingsRow EXCEPT
                       !.jira_base_url = "url", !.jira_username = "user",
                       !.jira_api_token = encrypt("token", 1)]
    /\ reply = NoReply
    /\ run = [r \in AllRuns |-> IdleRun]

\* Two requests to POST /generate-sync served at once, each step of either
\* taken in any order.
ConcurrentNext ==
    \/ \E r \in AllRuns, provider \in Providers :
           StartGenerate(r, KeyOf(r), TemplateOf(r), provider, "sync")
    \/ \E r \in AllRuns : ResolveTemplate(r)
    \/ \E r \in AllRuns : GroqStreamOpen(r)
    \/ \E r \in AllRuns : GroqChunk(r, <<CharOf(r)>>)
    \/ \E r \in AllRuns : GroqEnd(r)
    \/ \E r \in AllRuns : OllamaResponse(r)
    \/ \E r \in AllRuns :
           \E toks \in OwnLines(r) :
               run[r].fragsSent < MaxFrags /\ OllamaChunk(r, toks)
    \/ \E r \in AllRuns : OllamaClose(r)
    \/ \E r \in AllRuns : Persist(r, TRUE)
    \/ \E r \in AllRuns : CompleteRun(r)

SpecConcurrent == InitConcurrent /\ [][ConcurrentNext]_vars

\* -------------------------------------------------- concurrent uploads
\* POST /api/templates/upload arrives: createTemplate validates the file
\* and awaits extractText.  sawEmpty notes whether the store was empty then.
BeginUpload(r, name) ==
    /\ run[r].pc = "idle"
    /\ nextTemplateId
           + Cardinality({q \in AllRuns : run[q].pc = "extractText"})
               <= MaxTemplates
    /\ run' = [run EXCEPT ![r] =
           [IdleRun EXCEPT !.pc = "extractText",
                           !.upload = [name |-> name, id |-> NULL,
                                       sawEmpty |-> templates = {}]]]
    /\ UNCHANGED <<templates, nextTemplateId, jira_tickets, nextTicketRowId,
                   test_plan_history, nextHistoryId, settings, files, now>>

\* Fault variant of UploadIsDefault: shouldBeDefault is evaluated before
\* the PDF is parsed.
UploadIsDefaultEarly(rec) == rec.upload.sawEmpty

\* const isDefault = this.shouldBeDefault(), evaluated after the await
UploadIsDefault(rec) == shouldBeDefault

\* extractText resolved: the rest of createTemplate runs without another
\* await (writeFileSync, shouldBeDefault, insertTemplate, getTemplate)
FinishUpload(r, later) ==
    /\ run[r].pc = "extractText"
    /\ templates' = insertTemplate(templates, nextTemplateId,
                                   run[r].upload.name,
                                   UploadIsDefault(run[r]),
                                   IF later \/ templates = {}
                                   THEN NewestCreatedAt(templates) + 1
                                   ELSE NewestCreatedAt(templates))
    /\ nextTemplateId' = nextTemplateId + 1
    /\ files' = files \cup {nextTemplateId}
    /\ run' = [run EXCEPT ![r].pc = "created",
                          ![r].upload.id = nextTemplateId]
    /\ UNCHANGED <<jira_tickets, nextTicketRowId, test_plan_history,
                   nextHistoryId, settings, now>>

\* the route sends 201 with the template
UploadResponded(r) ==
    /\ run[r].pc = "created"
    /\ run' = [run EXCEPT ![r] = IdleRun]
    /\ UNCHANGED <<templates, nextTemplateId, jira_tickets, nextTicketRowId,
                   test_plan_history, nextHistoryId, settings, files, now>>

\* Two clients upload and delete templates; the uploads overlap in any way.
UploadsNext ==
    \/ \E r \in AllRuns, name \in Names : BeginUpload(r, name) /\ Unobserved
    \/ \E r \in AllRuns, later \in BOOLEAN :
           FinishUpload(r, later) /\ Unobserved
    \/ \E r \in AllRuns : UploadResponded(r) /\ Unobserved
    \/ \E id \in 1..MaxTemplates : DeleteTemplate(id) /\ Unobserved

SpecUploads == Init /\ [][UploadsNext]_vars

\* ----------------------------------------------------------- temperature
\* temperatures the settings validator accepts (0 to 1), in tenths
Temperatures == {0, 5, 10}

\* Generations through POST /generate-sync over a cached ticket and a
\* stored template, with the Groq temperature saved between them.
TemperatureNext ==
    \/ At({"idle"}) /\ UploadTemplate("n1", TRUE) /\ Unobserved
    \/ At({"idle"}) /\ SaveJiraSettings /\ Unobserved
    \/ At({"idle"}) /\ FetchTicketRoute("ABC-1", "s1") /\ Unobserved
    \/ \E temp \in Temperatures :
           /\ At({"idle"})
           /\ SaveLLMSettings([provider |-> "groq", groqApiKey |-> "gsk1",
                               groqModel |-> None, groqTemperature |-> temp,
                               ollamaBaseUrl |-> None, ollamaModel |-> None],
                              1)
           /\ Unobserved
    \/ \E r \in Runs, provider \in Providers :
           /\ "ABC-1" \in CachedKeys
           /\ nextHistoryId <= MaxHistory
           /\ StartGenerate(r, "ABC-1", NULL, provider, "sync")
    \/ \E r \in Runs : ResolveTemplate(r)
    \/ \E r \in Runs : GroqStreamOpen(r)
    \/ \E r \in Runs : GroqChunk(r, <<"a">>)
    \/ \E r \in Runs : GroqEnd(r)
    \/ \E r \in Runs : OllamaResponse(r)
    \/ \E r \in Runs : OllamaClose(r)
    \/ \E r \in Runs : Persist(r, TRUE)
    \/ \E r \in Runs : CompleteRun(r)
    \/ \E r \in Runs : Respond(r)

SpecTemperature == Init /\ [][TemperatureNext]_vars

\* -------------------------------------------------------------- settings
\* the secrets a user may save, and the ivs encrypt may draw
JiraTokens == {"token", "token2"}
GroqKeys == {"gsk1", "gsk2"}
IVs == {1, 2}

\* the bodies POST /api/settings/llm accepts (llmSettingsValidator): a
\* non-empty key with provider groq; with provider ollama the key is not
\* validated
LLMRequests ==
    {[provider |-> "groq", groqApiKey |-> key, groqModel |-> model,
      groqTemperature |-> temp, ollamaBaseUrl |-> None, ollamaModel |-> None]
        : key \in GroqKeys, model \in {None, "mixtral"},
          temp \in {NoTemperature, 0}}
    \cup
    {[provider |-> "ollama", groqApiKey |-> key, groqModel |-> None,
      groqTemperature |-> NoTemperature, ollamaBaseUrl |-> None,
      ollamaModel |-> model]
        : key \in {None, ""}, model \in {None, "mistral"}}

\* The settings endpoints on their own.
SettingsNext ==
    \/ \E tok \in JiraTokens, iv \in IVs :
           /\ SaveJiraSettingsWith([baseUrl |-> "url", username |-> "user",
                                    apiToken |-> tok], iv)
           /\ Answers("POST /settings/jira", NULL, [success |-> TRUE])
    \/ \E success \in BOOLEAN :
           /\ TestJiraConnection(success)
           /\ Answers("POST /settings/jira/test", NULL,
                      [success |-> success])
    \/ \E data \in LLMRequests, iv \in IVs :
           SaveLLMSettings(data, iv) /\ Unobserved
    \/ GetJiraSettings
    \/ GetLLMSettings

SpecSettings == Init /\ [][SettingsNext]_vars

\* A request to a store endpoint is interleaved with a generation where it
\* can change what the generation reads next: any request before it
\* starts, the ticket requests while it waits for the tracker, the deletion
\* of a row it is about to reference while it is about to write its
\* History row.  A provider step reads and writes no table.
ReferencedRemoval ==
    \/ \E r \in Runs : DeleteTemplate(run[r].template)
    \/ \E r \in Runs : DeleteTicket(run[r].ticketId)

Generate(r) ==
    \/ \E templateId \in 0..MaxTemplates,
          provider \in Providers, consumer \in Consumers :
           StartGenerate(r, "ABC-1", templateId, provider, consumer)
    \/ \E saved \in BOOLEAN : FetchTicketOk(r, "s1", saved)
    \/ \E err \in TrackerErrors : FetchTicketFail(r, err)
    \/ ResolveTemplate(r)
    \/ Persist(r, TRUE)
    \/ Persist(r, FALSE)
    \/ CompleteRun(r)

Groq(r) ==
    \/ GroqStreamOpen(r)
    \/ \E c \in {<<>>} \cup {<<ch>> : ch \in Chars} : GroqChunk(r, c)
    \/ GroqEnd(r)
    \/ \E kind \in GroqFailures : GroqFail(r, kind)

Ollama(r) ==
    \/ OllamaResponse(r)
    \/ \E toks \in Conts(run[r].wireAt, MaxFrags - run[r].fragsSent) :
           OllamaChunk(r, toks)
    \/ OllamaClose(r)
    \/ \E kind \in OllamaFailures : OllamaFail(r, kind)

\* ----------------------------------------------------------- disconnect
\* The caller closes the connection while the provider is being called or
\* is streaming.  Neither route listens for it: all that is kept is how
\* many events the run had emitted by then.
Disconnect(r) ==
    /\ run[r].pc \in {"upstream", "streaming"}
    /\ run[r].disconnectedAt = NoProgress
    /\ run' = [run EXCEPT ![r].disconnectedAt = Len(run[r].events)]
    /\ UNCHANGED dbVars

\* One generation with the cloud provider on either endpoint, over a cached
\* ticket and a stored template, with a caller that may disconnect.
CancelNext ==
    \/ At({"idle"}) /\ UploadTemplate("n1", TRUE) /\ Unobserved
    \/ At({"idle"}) /\ SaveJiraSettings /\ Unobserved
    \/ At({"idle"}) /\ FetchTicketRoute("ABC-1", "s1") /\ Unobserved
    \/ \E r \in Runs, consumer \in Consumers :
           /\ "ABC-1" \in CachedKeys
           /\ StartGenerate(r, "ABC-1", NULL, "groq", consumer)
    \/ \E r \in Runs : ResolveTemplate(r)
    \/ \E r \in Runs : Groq(r)
    \/ \E r \in Runs : Disconnect(r)
    \/ \E r \in Runs : Persist(r, TRUE)
    \/ \E r \in Runs : CompleteRun(r)

SpecCancel == Init /\ [][CancelNext]_vars

Next ==
    \/ At({"idle"}) /\ TemplateOp({"n1"}, {}) /\ Unobserved
    \/ At({"idle", "fetching"}) /\ CacheOp({"s1"}) /\ Unobserved
    \/ At({"idle"}) /\ SaveJiraSettings /\ Unobserved
    \/ At({"afterStream"}) /\ ReferencedRemoval /\ Unobserved
    \/ \E r \in Runs : Generate(r)
    \/ \E r \in Runs : Groq(r)
    \/ \E r \in Runs : Ollama(r)

Spec == Init /\ [][Next]_vars

\* ----------------------------------------------------------- properties
\* the positions of the events of one type in a sequence of events
TypeAt(evs, type) == {i \in 1..Len(evs) : evs[i].type = type}

TerminalAt(evs) == {i \in 1..Len(evs) : IsTerminal(evs[i])}

\* the in-order concatenation of the content events before position i
ContentBefore(evs, i) ==
    Flatten([j \in 1..(i - 1) |->
                 IF evs[j].type = "content" THEN evs[j].data ELSE <<>>])

EndedNormally(r) == run[r].pc \in {"done", "returned"}

\* C1 (as stated): a run of generate that ended without raising emitted
\* exactly one terminal event (complete or error), and that event is the
\* last one of its sequence.
C1_OneTerminalEventLast ==
    \A r \in Runs :
        EndedNormally(r) =>
            /\ Cardinality(TerminalAt(run[r].events)) = 1
            /\ IsTerminal(Last(run[r].events))

\* C2 (as stated): a run whose History write did not fail wrote exactly one
\* History row if it emitted complete with non-empty text, the row holding
\* that text, and wrote no row otherwise, whichever endpoint consumed it.
C2_HistoryRowIffComplete ==
    \A r \in Runs :
        (EndedNormally(r) /\ ~run[r].writeFailed) =>
            LET evs == run[r].events
                full == {i \in TypeAt(evs, "complete") : evs[i].data # <<>>}
            IN IF full # {}
               THEN /\ Len(run[r].rowsWritten) = 1
                    /\ Len(test_plan_history) = 1
                    /\ \A i \in full :
                           /\ run[r].rowsWritten[1] = evs[i].data
                           /\ test_plan_history[1].generated_content = evs[i].data
               ELSE run[r].rowsWritten = <<>> /\ test_plan_history = <<>>

\* C3: the data of every complete event of a run is the in-order
\* concatenation of the data of the content events emitted before it, and
\* when the run emitted no content event it is the payload of the
\* provider's own complete event.
C3_CompleteIsConcatenation ==
    \A r \in Runs :
        LET evs == run[r].events
        IN \A i \in TypeAt(evs, "complete") :
               /\ evs[i].data = ContentBefore(evs, i)
               /\ (TypeAt(evs, "content") = {} /\ run[r].providerDone)
                      => evs[i].data = run[r].providerFinal

\* C3 witness: a run consumed to its end whose last event is complete with
\* the text of two different fragments.
C3_Witness ==
    \E r \in Runs :
        /\ run[r].pc = "done"
        /\ Last(run[r].events).type = "complete"
        /\ Len(Last(run[r].events).data) = 2
        /\ Last(run[r].events).data[1] # Last(run[r].events).data[2]
        /\ Cardinality(TypeAt(run[r].events, "content")) = 2

\* C4 (as stated): when ticket or template resolution fails, generate does
\* not raise, emits a single error event that ends the sequence, never
\* invokes the provider and writes no History row.
C4_ResolutionFailureIsErrorEvent ==
    \A r \in Runs :
        run[r].failure # None =>
            /\ run[r].pc # "raised"
            /\ TypeAt(run[r].events, "error") = {Len(run[r].events)}
            /\ run[r].providerCalls = 0
            /\ run[r].rowsWritten = <<>>

\* C4 (amended): when ticket or template resolution fails, the provider is
\* never invoked, no History row is written and no complete event is
\* emitted; a failure that is an ApiError is raised to the caller with its
\* code and without any error event, any other failure is emitted as a
\* single error event that ends the sequence.
C4_ResolutionFailure ==
    \A r \in Runs :
        run[r].failure # None =>
            LET evs == run[r].events
            IN /\ run[r].providerCalls = 0
               /\ run[r].rowsWritten = <<>>
               /\ test_plan_history = <<>>
               /\ TypeAt(evs, "complete") = {}
               /\ IF run[r].thrown.isApi
                  THEN /\ run[r].pc = "raised"
                       /\ run[r].raised = run[r].thrown.code
                       /\ TypeAt(evs, "error") = {}
                  ELSE /\ EndedNormally(r)
                       /\ run[r].raised = None
                       /\ TypeAt(evs, "error") = {Len(evs)}
               /\ run[r].failure = "precondition" => run[r].raised = BAD_REQUEST
               /\ run[r].failure = "template" => run[r].raised = NOT_FOUND
               /\ run[r].failure = "cache" => run[r].raised = INTERNAL_ERROR

\* C4 witness: the tracker answered 404 and the run raised NOT_FOUND with
\* no error event emitted.
C4_Witness ==
    \E r \in Runs :
        /\ run[r].failure = "tracker"
        /\ run[r].thrown = ApiError(NOT_FOUND)
        /\ run[r].pc = "raised"
        /\ run[r].raised = NOT_FOUND
        /\ TypeAt(run[r].events, "error") = {}

GroqClassified == {"api401", "api429", "api500"}

\* C5 (as stated): when the Groq call fails with an authentication failure,
\* rate limiting or a 5xx, generate emits exactly one error event, no
\* complete event, and no History row is created.
C5_GroqFailureIsErrorEvent ==
    \A r \in Runs :
        (run[r].provider = "groq" /\ run[r].upstreamFailure \in GroqClassified)
            => /\ Cardinality(TypeAt(run[r].events, "error")) = 1
               /\ TypeAt(run[r].events, "complete") = {}
               /\ run[r].rowsWritten = <<>>

\* C5 (amended): when the Groq call fails with an authentication failure,
\* rate limiting or a 5xx, generate raises the classified ApiError
\* (UNAUTHORIZED, TOO_MANY_REQUESTS, BAD_GATEWAY) to its caller, emits
\* neither an error nor a complete event, and no History row is created.
C5_GroqFailureRaises ==
    \A r \in Runs :
        (run[r].provider = "groq" /\ run[r].upstreamFailure \in GroqClassified)
            => /\ run[r].pc = "raised"
               /\ run[r].raised =
                      (IF run[r].upstreamFailure = "api401" THEN UNAUTHORIZED
                       ELSE IF run[r].upstreamFailure = "api429"
                            THEN TOO_MANY_REQUESTS
                            ELSE BAD_GATEWAY)
               /\ TerminalAt(run[r].events) = {}
               /\ run[r].rowsWritten = <<>>
               /\ test_plan_history = <<>>

\* C5 witness: the Groq call was rejected with 401 and the run raised
\* UNAUTHORIZED after the provider's first progress event.
C5_Witness ==
    \E r \in Runs :
        /\ run[r].provider = "groq"
        /\ run[r].upstreamFailure = "api401"
        /\ run[r].raised = UNAUTHORIZED
        /\ Last(run[r].events) = ProviderHello("groq")

\* C6: once the persistence step was entered, the run neither raises nor
\* emits an error event, and it ends with complete carrying the full
\* accumulated text and progress 100, whether or not the History write
\* went through.
C6_WriteFailureNeverFailsGeneration ==
    \A r \in Runs :
        run[r].persistEntered =>
            LET evs == run[r].events
                saving == CHOOSE i \in 1..Len(evs) :
                              evs[i] = Progress("Saving to history...", Pct(95))
            IN /\ run[r].pc \in {"final", "done"}
               /\ run[r].raised = None
               /\ \A i \in (saving + 1)..Len(evs) : evs[i].type # "error"
               /\ run[r].fullContent = ContentBefore(evs, Len(evs) + 1)
               /\ run[r].pc = "done" =>
                      /\ Last(evs) = [type |-> "complete",
                                      data |-> run[r].fullContent,
                                      progress |-> 10000]
                      /\ run[r].response # INTERNAL_ERROR

\* C6 witness: the History write failed and the run has ended.
C6_Witness ==
    \E r \in Runs :
        /\ run[r].persistEntered
        /\ run[r].writeFailed
        /\ run[r].pc = "done"
        /\ test_plan_history = <<>>

\* C7 (as stated): template resolution uses the template with the supplied
\* id when it exists, otherwise a template flagged default, and otherwise
\* the run raises NOT_FOUND before any provider call.
C7_RequestedOrFlaggedDefault ==
    [][\A r \in Runs :
           (run[r].pc = "getTemplate" /\ run'[r].pc # "getTemplate") =>
               IF run[r].templateId \in TemplateIds
               THEN run'[r].template = run[r].templateId
               ELSE IF DefaultRows # {}
                    THEN run'[r].template \in {t.id : t \in DefaultRows}
                    ELSE /\ run'[r].pc = "raised"
                         /\ run'[r].raised = NOT_FOUND
                         /\ run'[r].providerCalls = 0]_vars

\* C7 (amended): template resolution uses the template with the supplied
\* id when it exists, otherwise the template flagged default, otherwise,
\* when the store holds templates none of which is flagged, a most recently
\* created one; only when the store is empty does the run raise NOT_FOUND
\* before any provider call.  The resolved template is always a stored one.
C7_TemplateResolution ==
    [][\A r \in Runs :
           (run[r].pc = "getTemplate" /\ run'[r].pc # "getTemplate") =>
               IF run[r].templateId \in TemplateIds
               THEN /\ run'[r].template = run[r].templateId
                    /\ run'[r].providerCalls = 1
               ELSE IF DefaultRows # {}
                    THEN /\ run'[r].template \in {t.id : t \in DefaultRows}
                         /\ run'[r].providerCalls = 1
                    ELSE IF templates # {}
                         THEN /\ run'[r].template \in TemplateIds
                              /\ \A t \in templates :
                                     t.created_at <=
                                         TemplateById(run'[r].template).created_at
                              /\ run'[r].providerCalls = 1
                              /\ run'[r].raised = None
                         ELSE /\ run'[r].pc = "raised"
                              /\ run'[r].raised = NOT_FOUND
                              /\ run'[r].template = NULL
                              /\ run'[r].providerCalls = 0]_vars

\* C7 witness: no template is flagged default, the requested id does not
\* exist, and the run went on to the provider with a stored template.
C7_Witness ==
    \E r \in Runs :
        /\ run[r].pc = "upstream"
        /\ run[r].templateId \notin TemplateIds
        /\ DefaultRows = {}
        /\ run[r].template \in TemplateIds
        /\ run[r].providerCalls = 1

\* C8: when generate starts for a ticket that is not cached while the
\* tracker credentials are not configured, it raises BAD_REQUEST at once,
\* calls neither the tracker nor the provider, and leaves the ticket cache
\* and the History table as they were.
C8_MissingCredentialsPrecondition ==
    /\ [][\A r \in Runs :
              (/\ run[r].pc = "idle"
               /\ run'[r].pc # "idle"
               /\ run'[r].ticketId \notin CachedKeys
               /\ (getJiraConfig.baseUrl = "" \/ getJiraConfig.apiToken = ""))
                  => /\ run'[r].pc = "raised"
                     /\ run'[r].raised = BAD_REQUEST
                     /\ run'[r].trackerCalls = 0
                     /\ run'[r].providerCalls = 0
                     /\ jira_tickets' = jira_tickets
                     /\ test_plan_history' = test_plan_history]_vars
    /\ [](\A r \in Runs :
              run[r].failure = "precondition" =>
                  /\ run[r].pc = "raised"
                  /\ run[r].trackerCalls = 0
                  /\ run[r].providerCalls = 0
                  /\ run[r].rowsWritten = <<>>)

\* C8 witness: a run failed on the missing credentials while another
\* ticket is cached.
C8_Witness ==
    \E r \in Runs :
        /\ run[r].failure = "precondition"
        /\ run[r].raised = BAD_REQUEST
        /\ run[r].cacheMiss
        /\ ~JiraConfigured

\* C9: generate contacts the tracker only when the ticket is not in the
\* cache; when the tracker returned the ticket and it was saved, the cache
\* holds exactly one row for it, one row more than before unless the row
\* was already there, the other rows are untouched, the provider has not
\* been invoked yet, and the run goes on to template resolution; a provider
\* invoked after a cache miss finds the ticket saved.
C9_TrackerOnlyOnCacheMiss ==
    /\ [][\A r \in Runs :
              run'[r].trackerCalls > run[r].trackerCalls
                  => run'[r].ticketId \notin CachedKeys]_vars
    /\ [][\A r \in Runs :
              (run[r].pc = "fetching" /\ run'[r].ticketSaved) =>
                  /\ Cardinality({t \in jira_tickets' :
                                      t.ticket_key = run[r].ticketId}) = 1
                  /\ Cardinality(jira_tickets') =
                         Cardinality(jira_tickets)
                             + (IF run[r].ticketId \in CachedKeys THEN 0 ELSE 1)
                  /\ \A t \in jira_tickets :
                         t.ticket_key # run[r].ticketId => t \in jira_tickets'
                  /\ run'[r].providerCalls = 0
                  /\ run'[r].pc = "getTemplate"]_vars
    /\ [](\A r \in Runs :
              (run[r].providerCalls > 0 /\ run[r].cacheMiss)
                  => run[r].ticketSaved /\ run[r].trackerCalls = 1)

\* C9 witness: after a cache miss the ticket was fetched and saved, and the
\* run has reached the provider.
C9_Witness ==
    \E r \in Runs :
        /\ run[r].cacheMiss
        /\ run[r].ticketSaved
        /\ run[r].pc = "streaming"
        /\ Cardinality({t \in jira_tickets :
                            t.ticket_key = run[r].ticketId}) = 1

\* C10: after any sequence of template operations at most one template is
\* flagged default, and a set-as-default call on an existing template T
\* leaves exactly T flagged.
C10_AtMostOneDefault ==
    /\ [](Cardinality(DefaultRows) <= 1)
    /\ [][\A id \in 1..MaxTemplates :
              (SetAsDefault(id) /\ getTemplateRow(id) # NULL)
                  => {t.id : t \in {u \in templates' : u.is_default}} = {id}]_vars

\* C10 witness: the second template is the default while the first, which
\* was the default when it was uploaded, is still stored.
C10_Witness ==
    /\ TemplateIds = {1, 2}
    /\ {t.id : t \in DefaultRows} = {2}

C12_DeleteMissingIsNotFound ==
    [][\A id \in 1..(MaxTemplates + MaxHistory) :
           /\ (/\ reply' # reply
               /\ reply'.op = "DELETE /templates/:id"
               /\ reply'.arg = id
               /\ id \notin TemplateIds)
                  => /\ reply'.result = NOT_FOUND
                     /\ UNCHANGED <<templates, files, test_plan_history>>
           /\ (/\ reply' # reply
               /\ reply'.op = "DELETE /history/:id"
               /\ reply'.arg = id
               /\ id \notin HistoryIds)
                  => /\ reply'.result = NOT_FOUND
                     /\ UNCHANGED <<templates, files, test_plan_history>>]_vars

\* C12 witness: History row 2 was deleted and a second delete of id 2 was
\* answered NOT_FOUND while row 1 and a template are still stored.
C12_Witness ==
    /\ reply = Reply("DELETE /history/:id", 2, NOT_FOUND)
    /\ HistoryIds = {1}
    /\ nextHistoryId = 3
    /\ templates # {}
    /\ files = TemplateIds

\* C13: what POST /generate has written is, while the response is open, a
\* sequence of progress and content events only, and once the response is
\* closed that sequence followed by exactly one complete or error event
\* and then exactly one done marker, whether generate ended or raised.
C13_StreamResponseShape ==
    \A r \in Runs :
        run[r].consumer = "stream" =>
            LET sse == run[r].sse
                n == Len(sse)
            IN IF run[r].response = "closed"
               THEN /\ n >= 2
                    /\ sse[n] = DoneMarker
                    /\ IsTerminal(sse[n - 1])
                    /\ \A i \in 1..(n - 2) :
                           sse[i].type \in {"progress", "content"}
                    /\ run[r].pc \in {"returned", "raised"}
                    /\ run[r].pc = "raised" =>
                           sse[n - 1] = ErrorEvent(run[r].raised)
               ELSE /\ \A i \in 1..n : sse[i].type \in {"progress", "content"}
                    /\ run[r].pc \notin Ended

\* C13 witness: generate raised after content had been streamed, and the
\* response ends with content, error, done.
C13_Witness ==
    \E r \in Runs :
        /\ run[r].consumer = "stream"
        /\ run[r].pc = "raised"
        /\ run[r].response = "closed"
        /\ Len(run[r].sse) >= 3
        /\ run[r].sse[Len(run[r].sse) - 2].type = "content"
        /\ run[r].sse[Len(run[r].sse) - 1].type = "error"
        /\ Last(run[r].sse) = DoneMarker

\* C14 (as stated): once POST /generate-sync has answered, the answer is a
\* success body exactly when the run neither raised nor emitted an error
\* event, its content is then the data of the run's last complete event,
\* and otherwise the answer is an error envelope.
C14_SyncSuccessIffNoError ==
    \A r \in Runs :
        (run[r].consumer = "sync" /\ run[r].response # None) =>
            LET evs == run[r].events
                failed == run[r].pc = "raised" \/ TypeAt(evs, "error") # {}
            IN /\ run[r].pc \in {"done", "raised"}
               /\ failed => run[r].response \in ApiErrorCodes
               /\ ~failed =>
                      /\ run[r].response = "success"
                      /\ Last(evs).type = "complete"
                      /\ run[r].content = Last(evs).data

\* C15 (as stated): after the caller has disconnected the run reads no
\* further provider event and writes no History row.
C15_NothingAfterDisconnect ==
    \A r \in Runs :
        run[r].disconnectedAt # NoProgress =>
            /\ Len(run[r].events) = run[r].disconnectedAt
            /\ run[r].rowsWritten = <<>>
            /\ test_plan_history = <<>>

\* the provider's generator is over: it completed, or its upstream failed
ProviderEnded(r) == run[r].providerDone \/ run[r].upstreamFailure # None

\* C16 (as stated): when a provider's generator is over it has not raised,
\* and the events it yielded hold exactly one complete or error event,
\* which is the last one.
C16_ProviderEndsWithTerminalEvent ==
    \A r \in Runs :
        ProviderEnded(r) =>
            /\ run[r].pRaised = None
            /\ TerminalAt(run[r].pEvents) = {Len(run[r].pEvents)}

\* C16 (amended): a provider yields at most one complete or error event
\* and nothing after it.  When its upstream call and stream succeed, its
\* last event is complete.  When they fail, the cloud provider raises the
\* classified ApiError without a terminal event for an API error or a
\* timeout and yields a single closing error event only for a failure it
\* does not classify; the local provider always raises an ApiError
\* (NOT_FOUND for a missing model, BAD_GATEWAY otherwise) without a
\* terminal event.
C16_ProviderEndsOrRaises ==
    \A r \in Runs :
        LET evs == run[r].pEvents
            kind == run[r].upstreamFailure
        IN /\ TerminalAt(evs) \subseteq {Len(evs)}
           /\ (run[r].providerDone /\ kind = None) =>
                  /\ evs # <<>>
                  /\ Last(evs).type = "complete"
                  /\ run[r].pRaised = None
           /\ (kind # None /\ run[r].provider = "groq") =>
                  IF kind \in {"other", "blank"}
                  THEN /\ run[r].pRaised = None
                       /\ Last(evs).type = "error"
                  ELSE /\ TerminalAt(evs) = {}
                       /\ run[r].pRaised =
                              (IF kind = "api401" THEN UNAUTHORIZED
                               ELSE IF kind = "api429" THEN TOO_MANY_REQUESTS
                                    ELSE BAD_GATEWAY)
           /\ (kind # None /\ run[r].provider = "ollama") =>
                  /\ TerminalAt(evs) = {}
                  /\ run[r].pRaised =
                         (IF kind = "http404" THEN NOT_FOUND ELSE BAD_GATEWAY)

\* C16 witness: the local provider's stream failed after a content event
\* and the provider raised BAD_GATEWAY without a terminal event.
C16_Witness ==
    \E r \in Runs :
        /\ run[r].provider = "ollama"
        /\ run[r].upstreamFailure = "other"
        /\ run[r].pRaised = BAD_GATEWAY
        /\ Len(run[r].pEvents) >= 2
        /\ Last(run[r].pEvents).type = "content"

\* C17 (as stated): every step leaves the History store as it is, appends
\* one row to it, or removes the row with one id from it.
C17_HistoryOnlyAppendOrDelete ==
    [][\/ test_plan_history' = test_plan_history
       \/ \E row \in {Last(test_plan_history')} :
              /\ test_plan_history' # <<>>
              /\ test_plan_history' = Append(test_plan_history, row)
       \/ \E id \in HistoryIds :
              test_plan_history' = RemoveHistoryRow(test_plan_history, id)]_vars

\* C17 (amended): the key, provider, content and creation time of a History
\* row never change and the rows keep their order; a row leaves the store
\* only through the delete-by-id of its id and enters it only at the end
\* with a fresh id; its template and ticket references change only to NULL,
\* and only in the step that deletes the referenced template or ticket.
C17_HistoryContentFrozen ==
    [][LET h == test_plan_history
           h2 == test_plan_history'
           kept == SelectSeq(h, LAMBDA row :
                       \E j \in 1..Len(h2) : h2[j].id = row.id)
       IN /\ \A i \in 1..Len(h) :
                 (\A j \in 1..Len(h2) : h2[j].id # h[i].id) =>
                     reply' = Reply("DELETE /history/:id", h[i].id, "ok")
          /\ Len(h2) \in {Len(kept), Len(kept) + 1}
          /\ Len(h2) = Len(kept) + 1 =>
                 /\ Last(h2).id = nextHistoryId
                 /\ nextHistoryId' = nextHistoryId + 1
          /\ \A i \in 1..Len(kept) :
                 LET old == kept[i]
                     new == h2[i]
                 IN /\ new.id = old.id
                    /\ new.ticket_key = old.ticket_key
                    /\ new.llm_provider = old.llm_provider
                    /\ new.generated_content = old.generated_content
                    /\ new.created_at = old.created_at
                    /\ new.template_id # old.template_id =>
                           /\ new.template_id = NULL
                           /\ old.template_id \in TemplateIds
                           /\ templates' =
                                  {t \in templates : t.id # old.template_id}
                    /\ new.ticket_id # old.ticket_id =>
                           /\ new.ticket_id = NULL
                           /\ jira_tickets' =
                                  {t \in jira_tickets : t.id # old.ticket_id}
                           /\ jira_tickets' # jira_tickets]_vars

\* C17 witness: a template was deleted and a History row that was written
\* with it now has no template reference, its content being what was
\* generated.
C17_Witness ==
    /\ reply.op = "DELETE /templates/:id"
    /\ reply.result = "ok"
    /\ \E i \in 1..Len(test_plan_history) :
           /\ test_plan_history[i].template_id = NULL
           /\ test_plan_history[i].generated_content = <<"a">>

\* C18: a step in which a fetch route calls the tracker and stores the
\* ticket is taken only while the stored connected flag is true.
C18_FetchOnlyWhileConnected ==
    [][(\E key \in TicketKeys, summary \in Summaries :
            FetchTicketRoute(key, summary))
           => settings.jira_connected]_vars

\* the stored settings with another token, another key
WithJiraToken(tok, iv) ==
    [settings EXCEPT !.jira_api_token = encrypt(tok, iv)]

WithGroqKey(key, iv) == [settings EXCEPT !.groq_api_key = encrypt(key, iv)]

\* C19: the response of GET /api/settings/jira and of GET /api/settings/llm
\* is the same for every value a stored, non-empty JIRA token or Groq key
\* could have in place of the stored one, so neither response contains the
\* secret; and what the two endpoints send is that response.
C19_SecretsNotInResponses ==
    /\ \A tok \in JiraTokens, iv \in IVs :
           settings.jira_api_token # <<>> =>
               /\ JiraSettingsBody(JiraConfigOf(rowToSettings(
                                       WithJiraToken(tok, iv))))
                      = JiraSettingsBody(getJiraConfig)
               /\ LLMSettingsBody(LLMConfigOf(rowToSettings(
                                      WithJiraToken(tok, iv))))
                      = LLMSettingsBody(getLLMConfig)
    /\ \A key \in GroqKeys, iv \in IVs :
           settings.groq_api_key # <<>> =>
               /\ LLMSettingsBody(LLMConfigOf(rowToSettings(
                                      WithGroqKey(key, iv))))
                      = LLMSettingsBody(getLLMConfig)
               /\ JiraSettingsBody(JiraConfigOf(rowToSettings(
                                       WithGroqKey(key, iv))))
                      = JiraSettingsBody(getJiraConfig)
    /\ reply.op = "GET /settings/jira" =>
           reply.result = JiraSettingsBody(getJiraConfig)
    /\ reply.op = "GET /settings/llm" =>
           reply.result = LLMSettingsBody(getLLMConfig)

\* C19 witness: GET /api/settings/jira has answered with hasCredentials
\* while a token and a Groq key are stored.
C19_Witness ==
    /\ reply.op = "GET /settings/jira"
    /\ reply.result.hasCredentials
    /\ getJiraConfig.apiToken = "token2"
    /\ getLLMConfig.groq.apiKey = "gsk2"

\* the limit a numeric query parameter asks for, 20 when there is none; a
\* negative number asks for no row
AskedLimit(text) ==
    IF text = "" THEN DefaultLimit
    ELSE IF parseInt(text).n < 0 THEN 0 ELSE parseInt(text).n

\* C20: the listing sent for a limit N (20 when no limit is given) has
\* min(N, total) rows, in descending order of creation time, none of them
\* older than a row that was left out, and each row carries the summary of
\* the cached ticket it is linked to, or its own ticket key when that
\* ticket is missing.
C20_ListingIsMostRecentN ==
    [][(/\ reply'.op = "GET /history"
        /\ reply' # reply
        /\ reply'.arg # "abc")
           => LET listing == reply'.result
                  h == test_plan_history
                  listed == {listing[i].id : i \in 1..Len(listing)}
              IN /\ Len(listing) = Min(AskedLimit(reply'.arg), Len(h))
                 /\ \A i, j \in 1..Len(listing) :
                        i < j => listing[i].createdAt >= listing[j].createdAt
                 /\ \A i \in 1..Len(listing), k \in 1..Len(h) :
                        h[k].id \notin listed =>
                            h[k].created_at <= listing[i].createdAt
                 /\ \A i \in 1..Len(listing) :
                        \E k \in 1..Len(h) :
                            /\ h[k].id = listing[i].id
                            /\ listing[i].ticketSummary =
                                   IF \E t \in jira_tickets :
                                          t.id = h[k].ticket_id
                                   THEN (CHOOSE t \in jira_tickets :
                                             t.id = h[k].ticket_id).summary
                                   ELSE h[k].ticket_key]_vars

GeneratingAt(evs) ==
    {i \in 1..Len(evs) : evs[i] = Progress("Generating...", Pct(30))}

\* what generate itself may emit once the provider's sequence has ended
OwnClosing(full) ==
    {<<>>, <<Progress("Saving to history...", Pct(95))>>,
     <<Progress("Saving to history...", Pct(95)), Complete(full)>>,
     <<Complete(full)>>}

\* C22: the events a run has emitted are generate's own events up to
\* "Generating...", then the events the provider yielded, unchanged, in
\* order and with nothing in between, then at most generate's own closing
\* events; and the accumulator is the concatenation of the data of the
\* provider's content events.
C22_ProviderEventsRelayed ==
    \A r \in Runs :
        LET evs == run[r].events
            p == run[r].pEvents
        IN /\ run[r].fullContent = ContentBefore(p, Len(p) + 1)
           /\ p = <<>> => GeneratingAt(evs) = {} \/ run[r].pc = "returned"
           /\ p # <<>> =>
                  \E g \in GeneratingAt(evs) :
                      /\ GeneratingAt(evs) = {g}
                      /\ Len(evs) >= g + Len(p)
                      /\ SubSeq(evs, g + 1, g + Len(p)) = p
                      /\ SubSeq(evs, g + Len(p) + 1, Len(evs))
                             \in OwnClosing(run[r].fullContent)

\* C22 witness: the provider yielded progress, two content events and
\* complete, and the run went on to its own closing events.
C22_Witness ==
    \E r \in Runs :
        /\ run[r].pc = "done"
        /\ Len(run[r].pEvents) = 4
        /\ Cardinality(TypeAt(run[r].pEvents, "content")) = 2
        /\ Last(run[r].pEvents).type = "complete"
        /\ Len(run[r].events) > Len(run[r].pEvents) + 5

\* s is t or t without its last element
AllButTail(s, t) ==
    /\ Len(s) \in {Len(t) - 1, Len(t)}
    /\ s = SubSeq(t, 1, Len(s))

C24_TemperatureFlowsUnmodified ==
    \A r \in Runs :
        run[r].providerCalls = 1 =>
            run[r].temperature =
                (IF run[r].provider = "groq" THEN settings.groq_temperature
                 ELSE 7)

\* the History rows written for one ticket key
RowsFor(key) ==
    {i \in 1..Len(test_plan_history) : test_plan_history[i].ticket_key = key}

\* C25: with two runs in progress at once, the accumulator of each is the
\* concatenation of the content events of its own provider and holds only
\* the text of its own stream; so does the data of its complete event;
\* and the History row written by a run has that run's ticket key, ticket
\* row, template, provider and text.
C25_RunsDoNotMix ==
    \A r \in AllRuns :
        LET rec == run[r]
            p == rec.pEvents
        IN /\ rec.fullContent = ContentBefore(p, Len(p) + 1)
           /\ Len(rec.fullContent) = Cardinality(TypeAt(p, "content"))
           /\ \A i \in 1..Len(rec.fullContent) :
                  rec.fullContent[i] = CharOf(r)
           /\ \A i \in TypeAt(rec.events, "complete") :
                  rec.events[i].data = rec.fullContent
           /\ rec.rowsWritten = <<>> => RowsFor(KeyOf(r)) = {}
           /\ rec.rowsWritten # <<>> =>
                  /\ Cardinality(RowsFor(KeyOf(r))) = 1
                  /\ \A i \in RowsFor(KeyOf(r)) :
                         /\ test_plan_history[i].template_id = TemplateOf(r)
                         /\ test_plan_history[i].ticket_id =
                                TicketByKey(KeyOf(r)).id
                         /\ test_plan_history[i].llm_provider = rec.provider
                         /\ test_plan_history[i].generated_content =
                                rec.fullContent

\* C25 witness: both runs were streaming at once, the second run wrote its
\* row first, and both have completed with two fragments each.
C25_Witness ==
    /\ run["r1"].pc = "done"
    /\ run["r2"].pc = "done"
    /\ Len(run["r1"].fullContent) = 2
    /\ Len(run["r2"].fullContent) = 2
    /\ Len(test_plan_history) = 2
    /\ test_plan_history[1].ticket_key = "XY-2"
    /\ run["r1"].provider # run["r2"].provider

\* the events of a sequence that carry a progress value
WithProgress(evs) == {i \in 1..Len(evs) : evs[i].progress # NoProgress}

\* C26: every progress value a run's events carry lies in 0..100, and no
\* event carries a lower value than an earlier event of the run.
C26_ProgressNeverDecreases ==
    \A r \in Runs :
        LET evs == run[r].events
        IN /\ \A i \in WithProgress(evs) :
                  evs[i].progress >= 0 /\ evs[i].progress <= Pct(100)
           /\ \A i, j \in WithProgress(evs) :
                  i < j => evs[i].progress <= evs[j].progress

\* C27: a list request whose limit is outside 1..100 is answered with a
\* validation error, never with a listing, on GET /api/testplan/history
\* and on GET /api/jira/recent.
C27_LimitOutOfRangeRejected ==
    (reply.op \in {"GET /history", "GET /recent"}
        /\ paginationValidator(reply.arg) # {})
            => reply.result = [code |-> BAD_REQUEST,
                               message |-> paginationValidator(reply.arg)]

\* C28: when the local provider has ended with complete, the text pieces
\* of its content events, in order, are exactly the text pieces of the
\* fragments the daemon sent up to and including the first one flagged
\* done, however the stream was cut into chunks and whether or not the
\* last fragment was followed by a newline.
C28_EveryFragmentContributesOnce ==
    \A r \in Runs :
        (/\ run[r].provider = "ollama"
         /\ run[r].providerDone
         /\ run[r].pEvents # <<>>
         /\ Last(run[r].pEvents).type = "complete")
            => ContentBefore(run[r].pEvents, Len(run[r].pEvents))
                   = run[r].sent.text

\* C29: the stored connected flag is true only if the most recent
\* connection test succeeded and no credentials were saved after it: it is
\* false after a request that saved credentials and after a connection
\* test that failed, and it becomes true only in a connection test that
\* succeeded.
C29_ConnectedOnlyAfterSuccessfulTest ==
    [][/\ (reply' # reply /\ reply'.op = "POST /settings/jira")
              => ~settings'.jira_connected
       /\ (/\ reply' # reply
           /\ reply'.op = "POST /settings/jira/test"
           /\ ~reply'.result.success)
              => ~settings'.jira_connected
       /\ (settings'.jira_connected /\ ~settings.jira_connected)
              => /\ reply'.op = "POST /settings/jira/test"
                 /\ reply'.result.success]_vars

\* C30: the template an upload inserts is the default exactly when the
\* store is empty at the insert; an upload into a non-empty store leaves
\* every stored row, its default flag included, as it was; every upload
\* whose PDF was parsed stores its row; and when two uploads that both
\* arrived at an empty store have both stored their rows, exactly one of
\* the two rows is the default.
C30_DefaultExactlyWhenStoreEmpty ==
    /\ [][\A r \in AllRuns :
              (run[r].pc = "extractText" /\ run'[r].pc # "extractText")
                  => /\ run'[r].pc = "created"
                     /\ \E t \in templates' :
                            /\ t.id = run'[r].upload.id
                            /\ t.id \notin TemplateIds
                            /\ t.name = run[r].upload.name
                            /\ t.is_default <=> (templates = {})
                            /\ templates' = templates \cup {t}]_vars
    /\ [](\A r, q \in AllRuns :
              (/\ r # q
               /\ run[r].pc = "created" /\ run[r].upload.sawEmpty
               /\ run[q].pc = "created" /\ run[q].upload.sawEmpty
               /\ {run[r].upload.id, run[q].upload.id} \subseteq TemplateIds)
                  => Cardinality({t \in DefaultRows :
                         t.id \in {run[r].upload.id, run[q].upload.id}}) = 1)

\* C30 witness: two uploads arrived while the store was empty, both have
\* stored their rows, and the row stored first is the default.
C30_Witness ==
    /\ run["r1"].pc = "created" /\ run["r1"].upload.sawEmpty
    /\ run["r2"].pc = "created" /\ run["r2"].upload.sawEmpty
    /\ run["r1"].upload.id = 2
    /\ TemplateIds = {1, 2}
    /\ {t.id : t \in DefaultRows} = {1}

====
